---------------------------- MODULE Spec2Model ----------------------------
(***************************************************************************)
(* Model of the WiFi-Robot controller firmware (STM8S + ESP8266):          *)
(*   Esp8266.c  - the receive state machine, the status word, the blocking *)
(*                wait and the AT command sequencing                       *)
(*   Uart.c     - the receive interrupt and its callback                   *)
(*   main.c     - the main loop's packet dispatcher                        *)
(*   DriveController.c - the motor pins and the PWM compare registers      *)
(*                                                                         *)
(* Bytes are integers 0..255, C arrays are functions from 0-based indices, *)
(* C strings are sequences (1-based) of character codes.                   *)
(***************************************************************************)
EXTENDS Integers, Sequences, FiniteSets, TLC

(***************************************************************************)
(* Program constants                                                       *)
(***************************************************************************)
ESP8266_RX_BUFFER_SIZE == 64

ESP8266_RESET == 0
ESP8266_GET_READY == 1
ESP8266_GET_OK == 2
ESP8266_GET_RX_HEADER == 3
ESP8266_GET_RX_PACKET_SIZE == 4
ESP8266_GET_RX_PACKET == 5
ESP8266_GET_TX == 6

ESP8266_OK_MESSAGE == 1
ESP8266_READY_MESSAGE == 2
ESP8266_TX_READY_MESSAGE == 4
ESP8266_RX_PACKET_MESSAGE == 8

\* "OK\r\n"
OK_MSG == <<79, 75, 13, 10>>
\* "ready\r\n"
READY_MSG == <<114, 101, 97, 100, 121, 13, 10>>
\* "> "
TX_READY_MSG == <<62, 32>>
\* "+IPD,1,"
RX_PACKET_MSG == <<43, 73, 80, 68, 44, 49, 44>>

\* DriveController.h : enum Directions
STOP == 0
FORWARD == 1
BACKWARD == 2
LEFT == 3
SHARP_LEFT == 4
RIGHT == 5
SHARP_RIGHT == 6

\* DriveController.c
PWM_TIMER_MAX_COUNT == 1000

\* the AT commands the firmware writes
\* "AT\r\n"
CMD_AT == <<65, 84, 13, 10>>
\* "AT+RST\r\n"
CMD_RST == <<65, 84, 43, 82, 83, 84, 13, 10>>
\* "ATE0\r\n"
CMD_ATE0 == <<65, 84, 69, 48, 13, 10>>
\* "AT+CWSAP=\"STM8S_Robot\",\"\",5,0\r\n"
CMD_CWSAP == <<65, 84, 43, 67, 87, 83, 65, 80, 61, 34, 83, 84, 77, 56, 83, 95,
               82, 111, 98, 111, 116, 34, 44, 34, 34, 44, 53, 44, 48, 13, 10>>
\* "AT+CIPMUX=1\r\n"
CMD_CIPMUX == <<65, 84, 43, 67, 73, 80, 77, 85, 88, 61, 49, 13, 10>>
\* "AT+CIPSTART=1,\"UDP\",\"192.168.4.2\",49999,49999,0\r\n"
CMD_CIPSTART == <<65, 84, 43, 67, 73, 80, 83, 84, 65, 82, 84, 61, 49, 44, 34,
                  85, 68, 80, 34, 44, 34, 49, 57, 50, 46, 49, 54, 56, 46, 52,
                  46, 50, 34, 44, 52, 57, 57, 57, 57, 44, 52, 57, 57, 57, 57,
                  44, 48, 13, 10>>
\* "AT+CIPSEND=1,"
CMD_CIPSEND == <<65, 84, 43, 67, 73, 80, 83, 69, 78, 68, 61, 49, 44>>
\* "\r\n"
CRLF == <<13, 10>>
\* "Hello"
HELLO == <<72, 101, 108, 108, 111>>

\* ':' ends the length field of an inbound packet
COLON == 58

\* Uart.h
UART_BUFFER_SIZE == 64

\* Esp8266.h: the two timeout arguments; WaitForResponse never reads its
\* timeout, so only which of the two was passed is kept
TIMEOUT_LONG == "0xFFFFFFFF"
TIMEOUT_SHORT == "0x00FFFFFF"

Byte == 0..255

(***************************************************************************)
(* Bounds of the model                                                     *)
(***************************************************************************)
\* packet bodies of every length up to MaxFullLen are enumerated over BodyBytes
MaxFullLen == 2
\* declared lengths run up to ESP8266_RX_BUFFER_SIZE + MaxOverrun
MaxOverrun == 3
\* messages the modem may send while the firmware sets it up
MaxSetupMsgs == 7
\* messages the modem may send while the main loop runs
MaxLoopMsgs == 3
\* touch events while the main loop runs
MaxTouches == 1

(***************************************************************************)
(* C arithmetic                                                            *)
(***************************************************************************)
RECURSIVE BitAnd(_, _)
BitAnd(a, b) ==
    IF a = 0 \/ b = 0 THEN 0
    ELSE (a % 2) * (b % 2) + 2 * BitAnd(a \div 2, b \div 2)

BitOr(a, b) == a + b - BitAnd(a, b)

\* ~m on an unsigned char operand, as used in "status &= ~m"
BitNot8(m) == 255 - (m % 256)

\* a 16-bit two's complement int (the STM8 int)
ToInt16(v) ==
    LET m == ((v % 65536) + 65536) % 65536
    IN  IF m >= 32768 THEN m - 65536 ELSE m

\* the unsigned 16-bit image of an int
ToUInt16(v) == ((v % 65536) + 65536) % 65536

(***************************************************************************)
(* State                                                                   *)
(***************************************************************************)
VARIABLES
    \* Esp8266.c
    esp_state,      \* static long esp_state of Esp8266_ProcessRxByte
    count,          \* static long count of Esp8266_ProcessRxByte
    packet,         \* unsigned char packet[ESP8266_RX_BUFFER_SIZE]
    packetSize,     \* int packetSize
    status,         \* unsigned char status
    oob,            \* some access to a buffer had an index outside the array
    \* Uart.c
    rxCallback,     \* Callback rxCallback ("NULL" or the function's name)
    rxIntEnabled,   \* UART2 receive interrupt enabled (Uart_EnableRxInterrupt)
    fifo,           \* unsigned char fifo[UART_BUFFER_SIZE]
    enqueueIndex,   \* unsigned long enqueueIndex
    dequeueIndex,   \* unsigned long dequeueIndex
    fret,           \* the value the last Uart_Fifo* call returned
    fifoOp,         \* the last Uart call ("none", "enq", "deq", "clear", "init")
    fq,             \* the bytes accepted by Uart_FifoEnqueue and not yet
                    \* handed out by Uart_FifoDequeue, oldest first
    fin,            \* the run of Uart_Fifo* calls being made
    tx,             \* the buffers handed to Uart_Send and the waits that
                    \* returned, in order (restarted by Esp8266_SendMsg)
    \* the polling context (main.c and the blocking calls of Esp8266.c)
    pc,             \* where the polling context stands
    msgType,        \* WaitForResponse: its parameter msgType
    timeout,        \* WaitForResponse: its parameter timeout
    wfr_val,        \* WaitForResponse: the value it returned last (-1: none)
    acc,            \* the value of status loaded by a "status &= ~m"
    wfr_ret,        \* WaitForResponse: where it returns to
    mbuf,           \* main: unsigned char packet[ESP8266_RX_BUFFER_SIZE]
    length,         \* main: unsigned short length
    cn,             \* Esp8266_ReceiveMsg: the size handed to memcpy
    ci,             \* Esp8266_ReceiveMsg: bytes memcpy has copied
    sbuf,           \* Esp8266_SendMsg: its parameter buffer ("packet", "hello")
    slen,           \* Esp8266_SendMsg: its parameter length
    snd_ret,        \* Esp8266_SendMsg: where it returns to
    \* DriveController.c
    pins,           \* the four motor direction outputs
    ccr,            \* the two TIM2 compare registers
    \* the byte stream on the UART receive line
    sc,             \* the scenario the stream was built from
    input,          \* bytes of the message in flight not yet received
    nfed,           \* bytes received so far
    msgs,           \* messages the modem has started
    touches,        \* touch events so far
    \* history
    hist            \* counters and records the properties are stated with

engineVars == <<esp_state, count, packet, packetSize, status, oob>>
fifoVars == <<fifo, enqueueIndex, dequeueIndex, fret, fifoOp, fq, fin>>
uartVars == <<rxCallback, rxIntEnabled, fifoVars>>
waitVars == <<msgType, timeout, acc, wfr_ret, wfr_val>>
recvVars == <<mbuf, length, cn, ci>>
sendVars == <<sbuf, slen, snd_ret>>
driveVars == <<pins, ccr>>
streamVars == <<sc, input, nfed, msgs>>
vars == <<esp_state, count, packet, packetSize, status, oob,
          rxCallback, rxIntEnabled, fifo, enqueueIndex, dequeueIndex, fret,
          fifoOp, fq, fin, tx,
          pc, msgType, timeout, acc, wfr_ret, wfr_val, mbuf, length, cn, ci, sbuf, slen, snd_ret,
          pins, ccr, sc, input, nfed, msgs, touches, hist>>

(***************************************************************************)
(* Esp8266.c : the receive state machine                                   *)
(***************************************************************************)
\* sscanf(packet, "%d", &size): the text is packet[0..] up to the first NUL
RECURSIVE CStrLen(_, _)
CStrLen(pkt, i) ==
    IF i >= ESP8266_RX_BUFFER_SIZE THEN i
    ELSE IF pkt[i] = 0 THEN i ELSE CStrLen(pkt, i + 1)

IsSpace(c) == c \in {9, 10, 11, 12, 13, 32}
IsDigit(c) == c \in 48..57

RECURSIVE SkipSpace(_, _, _)
SkipSpace(pkt, i, n) ==
    IF i < n /\ IsSpace(pkt[i]) THEN SkipSpace(pkt, i + 1, n) ELSE i

RECURSIVE DigitsEnd(_, _, _)
DigitsEnd(pkt, i, n) ==
    IF i < n /\ IsDigit(pkt[i]) THEN DigitsEnd(pkt, i + 1, n) ELSE i

\* val is a 16-bit int at every digit; testing it makes TLC evaluate it
\* digit by digit rather than as one expression as deep as the text is long
RECURSIVE DigitsValue(_, _, _, _)
DigitsValue(pkt, i, j, val) ==
    IF i >= j \/ val \notin -32768..32767 THEN val
    ELSE DigitsValue(pkt, i + 1, j, ToInt16(val * 10 + (pkt[i] - 48)))

\* the conversion %d: white space, an optional sign, then at least one digit
Sscanf_d(pkt) ==
    LET n  == CStrLen(pkt, 0)
        i0 == SkipSpace(pkt, 0, n)
        sg == i0 < n /\ pkt[i0] \in {43, 45}
        i1 == IF sg THEN i0 + 1 ELSE i0
        i2 == DigitsEnd(pkt, i1, n)
        v  == DigitsValue(pkt, i1, i2, 0)
    IN  [matched |-> i2 > i1,
         value   |-> IF sg /\ pkt[i0] = 45 THEN ToInt16(0 - v) ELSE v]

\* The store "packet[i] = v".  Inside the array it writes the element.
\* Outside the array the behaviour is undefined: the byte lands in whatever
\* the linker placed behind packet[]; packetSize and status are declared
\* right after it, so the store may hit neither, either byte of packetSize,
\* or status.
Stores(i, v) ==
    IF i \in 0..(ESP8266_RX_BUFFER_SIZE - 1)
    THEN {[packet |-> [packet EXCEPT ![i] = v], packetSize |-> packetSize,
           status |-> status, oob |-> oob]}
    ELSE {[packet |-> packet, packetSize |-> packetSize,
           status |-> status, oob |-> TRUE],
          [packet |-> packet,
           packetSize |-> ToInt16(v * 256 + (ToUInt16(packetSize) % 256)),
           status |-> status, oob |-> TRUE],
          [packet |-> packet,
           packetSize |-> ToInt16((ToUInt16(packetSize) \div 256) * 256 + v),
           status |-> status, oob |-> TRUE],
          [packet |-> packet, packetSize |-> packetSize,
           status |-> v, oob |-> TRUE]}

\* byte completes the literal msg: it matches at the progress count and
\* the incremented count reaches sizeof(msg) - 1
LiteralDone(msg, byte) ==
    /\ byte = msg[count + 1]
    /\ count + 1 >= Len(msg)

\* mutant: a mismatching byte leaves the machine in the matching state
MatchLiteral_NoReset(msg, flag, byte) ==
    /\ IF byte = msg[count + 1]
       THEN IF count + 1 >= Len(msg)
            THEN /\ esp_state' = ESP8266_RESET
                 /\ status' = BitOr(status, flag)
                 /\ count' = count + 1
            ELSE /\ count' = count + 1
                 /\ UNCHANGED <<esp_state, status>>
       ELSE UNCHANGED <<esp_state, count, status>>
    /\ UNCHANGED <<packet, packetSize, oob>>

\* mutant: the completed literal raises its flag but the machine stays in
\* the matching state
MatchLiteral_NoIdle(msg, flag, byte) ==
    /\ IF byte = msg[count + 1]
       THEN IF count + 1 >= Len(msg)
            THEN /\ status' = BitOr(status, flag)
                 /\ count' = 1
                 /\ UNCHANGED esp_state
            ELSE /\ count' = count + 1
                 /\ UNCHANGED <<esp_state, status>>
       ELSE /\ esp_state' = ESP8266_RESET
            /\ UNCHANGED <<count, status>>
    /\ UNCHANGED <<packet, packetSize, oob>>

\* mutant: a mismatching byte is examined again as the first byte of a
\* message
MatchLiteral_Backtrack(msg, flag, byte) ==
    /\ IF byte = msg[count + 1]
       THEN IF count + 1 >= Len(msg)
            THEN /\ esp_state' = ESP8266_RESET
                 /\ status' = BitOr(status, flag)
                 /\ count' = count + 1
            ELSE /\ count' = count + 1
                 /\ UNCHANGED <<esp_state, status>>
       ELSE /\ esp_state' = CASE byte = OK_MSG[1]        -> ESP8266_GET_OK
                               [] byte = READY_MSG[1]     -> ESP8266_GET_READY
                               [] byte = RX_PACKET_MSG[1] -> ESP8266_GET_RX_HEADER
                               [] byte = TX_READY_MSG[1]  -> ESP8266_GET_TX
                               [] OTHER                   -> ESP8266_RESET
            /\ count' = 1
            /\ UNCHANGED status
    /\ UNCHANGED <<packet, packetSize, oob>>

\* the states ESP8266_GET_READY, ESP8266_GET_OK and ESP8266_GET_TX
MatchLiteral(msg, flag, byte) ==
    /\ IF byte = msg[count + 1]
       THEN IF count + 1 >= Len(msg)
            THEN /\ esp_state' = ESP8266_RESET
                 /\ status' = BitOr(status, flag)
                 /\ count' = count + 1
            ELSE /\ count' = count + 1
                 /\ UNCHANGED <<esp_state, status>>
       ELSE /\ esp_state' = ESP8266_RESET
            /\ UNCHANGED <<count, status>>
    /\ UNCHANGED <<packet, packetSize, oob>>

\* mutant: case ESP8266_RESET without "count = 0"
RxIdle_KeepsCount(byte) ==
    /\ esp_state' = CASE byte = OK_MSG[1]        -> ESP8266_GET_OK
                      [] byte = READY_MSG[1]     -> ESP8266_GET_READY
                      [] byte = RX_PACKET_MSG[1] -> ESP8266_GET_RX_HEADER
                      [] byte = TX_READY_MSG[1]  -> ESP8266_GET_TX
                      [] OTHER                   -> ESP8266_RESET
    /\ count' = count + 1
    /\ UNCHANGED <<packet, packetSize, status, oob>>

\* case ESP8266_RESET
RxIdle(byte) ==
    /\ esp_state' = CASE byte = OK_MSG[1]        -> ESP8266_GET_OK
                      [] byte = READY_MSG[1]     -> ESP8266_GET_READY
                      [] byte = RX_PACKET_MSG[1] -> ESP8266_GET_RX_HEADER
                      [] byte = TX_READY_MSG[1]  -> ESP8266_GET_TX
                      [] OTHER                   -> ESP8266_RESET
    /\ count' = 1
    /\ UNCHANGED <<packet, packetSize, status, oob>>

\* case ESP8266_GET_RX_HEADER
RxHeader(byte) ==
    /\ IF byte = RX_PACKET_MSG[count + 1]
       THEN IF count + 1 >= Len(RX_PACKET_MSG)
            THEN /\ esp_state' = ESP8266_GET_RX_PACKET_SIZE
                 /\ count' = 0
            ELSE /\ count' = count + 1
                 /\ UNCHANGED esp_state
       ELSE /\ esp_state' = ESP8266_RESET
            /\ UNCHANGED count
    /\ UNCHANGED <<packet, packetSize, status, oob>>

\* case ESP8266_GET_RX_PACKET_SIZE
RxPacketSize(byte) ==
    IF byte # COLON
    THEN \E m \in Stores(count, byte) :
            /\ packet' = m.packet
            /\ packetSize' = m.packetSize
            /\ status' = m.status
            /\ oob' = m.oob
            /\ count' = count + 1
            /\ UNCHANGED esp_state
    ELSE \E m \in Stores(count, 0) :
            LET r == Sscanf_d(m.packet)
            IN  /\ packet' = m.packet
                /\ status' = m.status
                /\ oob' = m.oob
                /\ IF r.matched
                   THEN /\ packetSize' = r.value
                        /\ esp_state' = ESP8266_GET_RX_PACKET
                        /\ count' = 0
                   ELSE /\ packetSize' = m.packetSize
                        /\ esp_state' = ESP8266_RESET
                        /\ UNCHANGED count

\* case ESP8266_GET_RX_PACKET
RxPacket(byte) ==
    \E m \in Stores(count, byte) :
        /\ packet' = m.packet
        /\ packetSize' = m.packetSize
        /\ oob' = m.oob
        /\ count' = count + 1
        /\ IF count + 1 >= m.packetSize
           THEN /\ esp_state' = ESP8266_RESET
                /\ status' = BitOr(m.status, ESP8266_RX_PACKET_MESSAGE)
           ELSE /\ status' = m.status
                /\ UNCHANGED esp_state

Esp8266_ProcessRxByte(byte) ==
    CASE esp_state = ESP8266_RESET ->
            RxIdle(byte)
      [] esp_state = ESP8266_GET_READY ->
            MatchLiteral(READY_MSG, ESP8266_READY_MESSAGE, byte)
      [] esp_state = ESP8266_GET_OK ->
            MatchLiteral(OK_MSG, ESP8266_OK_MESSAGE, byte)
      [] esp_state = ESP8266_GET_RX_HEADER ->
            RxHeader(byte)
      [] esp_state = ESP8266_GET_RX_PACKET_SIZE ->
            RxPacketSize(byte)
      [] esp_state = ESP8266_GET_RX_PACKET ->
            RxPacket(byte)
      [] esp_state = ESP8266_GET_TX ->
            MatchLiteral(TX_READY_MSG, ESP8266_TX_READY_MESSAGE, byte)
      [] OTHER ->
            /\ esp_state' = ESP8266_RESET
            /\ UNCHANGED <<count, packet, packetSize, status, oob>>

\* what Esp8266_ReceiveMsg returns when called in the current state
ReceiveMsgResult ==
    IF BitAnd(status, ESP8266_RX_PACKET_MESSAGE) # 0 THEN packetSize ELSE 0

(***************************************************************************)
(* History the properties are stated with                                  *)
(***************************************************************************)
Flags == {ESP8266_OK_MESSAGE, ESP8266_READY_MESSAGE,
          ESP8266_TX_READY_MESSAGE, ESP8266_RX_PACKET_MESSAGE}

\* one call of Esp8266_ReceiveMsg: whether its test saw the packet flag set,
\* the value it returned, packetSize at its return, whether its store left
\* the flag clear, whether it left status, packet[], packetSize and the
\* caller's buffer as they were, whether no packet completed between the
\* beginning of the call before it and its own, what that call returned,
\* and the bytes the caller holds at the return (the first ret of its buffer)
NoCall == [valid |-> FALSE, flagSeen |-> FALSE, ret |-> 0, size |-> 0,
           cleared |-> FALSE, same |-> FALSE, quiet |-> FALSE, prev |-> 0,
           bytes |-> <<>>]

HistInit ==
    [recognized |-> [f \in Flags |-> 0],   \* completions of f's message
     raised     |-> [f \in Flags |-> 0],   \* completions that found f clear
     success    |-> [f \in Flags |-> 0],   \* returns of a wait whose mask has f
     lastWait   |-> [valid |-> FALSE, mask |-> 0, before |-> 0, atStore |-> 0,
                     after |-> 0],
     called     |-> FALSE,                 \* Esp8266_ReceiveMsg was called before
     completedSince |-> FALSE,             \* a packet completed since that call began
     recv       |-> NoCall,                \* the call of Esp8266_ReceiveMsg in progress
     lastRecv   |-> NoCall,                \* the call that returned last
     act        |-> [dir |-> -1, speed |-> -1],  \* drive calls of the last dispatch
     phase      |-> "setup"]

\* the status bit whose message this byte completes, 0 if none
CompletedFlag(byte) ==
    CASE esp_state = ESP8266_GET_OK /\ LiteralDone(OK_MSG, byte) ->
            ESP8266_OK_MESSAGE
      [] esp_state = ESP8266_GET_READY /\ LiteralDone(READY_MSG, byte) ->
            ESP8266_READY_MESSAGE
      [] esp_state = ESP8266_GET_TX /\ LiteralDone(TX_READY_MSG, byte) ->
            ESP8266_TX_READY_MESSAGE
      [] esp_state = ESP8266_GET_RX_PACKET /\ esp_state' = ESP8266_RESET ->
            ESP8266_RX_PACKET_MESSAGE
      [] OTHER -> 0

HistRx(byte) ==
    LET f == IF rxCallback = "NULL" THEN 0 ELSE CompletedFlag(byte)
    IN  IF f = 0 THEN hist
        ELSE [hist EXCEPT
                !.recognized[f] = @ + 1,
                !.raised[f] = IF BitAnd(status, f) = 0 THEN @ + 1 ELSE @,
                !.completedSince =
                    IF f = ESP8266_RX_PACKET_MESSAGE THEN TRUE ELSE @]

(***************************************************************************)
(* Uart.c                                                                  *)
(***************************************************************************)
\* a second function of type Callback, which counts its calls and keeps the
\* byte of the last one
Probe(byte) == fin' = [fin EXCEPT !.calls = @ + 1, !.last = byte]

\* the ISR with the test of rxCallback left out
Uart_ReceiveISR_Always(byte) ==
    /\ Esp8266_ProcessRxByte(byte)
    /\ UNCHANGED <<fin, rxCallback, fifo, enqueueIndex, dequeueIndex, fret,
                   fifoOp, fq>>

\* Uart_ReceiveISR: the received byte goes to the registered callback, or is
\* dropped when none is registered
Uart_ReceiveISR(byte) ==
    /\ CASE rxCallback = "NULL" -> UNCHANGED <<engineVars, fin>>
          [] rxCallback = "Esp8266_ProcessRxByte" ->
                Esp8266_ProcessRxByte(byte) /\ UNCHANGED fin
          [] rxCallback = "Probe" -> Probe(byte) /\ UNCHANGED engineVars
    /\ UNCHANGED <<rxCallback, fifo, enqueueIndex, dequeueIndex, fret, fifoOp,
                   fq>>

\* Uart_SetRxCallback(func)
Uart_SetRxCallback(func) == rxCallback' = func

\* Uart.c: the FIFO as its definition leaves it, which is also how
\* Uart_FifoClear leaves it
FifoInit ==
    /\ fifo = [i \in 0..(UART_BUFFER_SIZE - 1) |-> 0]
    /\ enqueueIndex = 0
    /\ dequeueIndex = 0
    /\ fret = 0
    /\ fifoOp = "none"
    /\ fq = <<>>

NoFifoRun == [kind |-> "none"]

\* mutant: the index wraps one slot early
Uart_FifoGetNextIndex_WrapEarly(index) ==
    IF index + 1 >= UART_BUFFER_SIZE - 1 THEN 0 ELSE index + 1

Uart_FifoGetNextIndex(index) ==
    IF index + 1 >= UART_BUFFER_SIZE THEN 0 ELSE index + 1

\* mutant: the FIFO never reports empty
Uart_FifoIsEmpty_Behind == dequeueIndex >= enqueueIndex

Uart_FifoIsEmpty == dequeueIndex = enqueueIndex

\* mutant: the FIFO never reports full
Uart_FifoIsFull_Never == FALSE

Uart_FifoIsFull == Uart_FifoGetNextIndex(enqueueIndex) = dequeueIndex

Uart_FifoEnqueue(data) ==
    /\ IF ~Uart_FifoIsFull
       THEN /\ fifo' = [fifo EXCEPT ![enqueueIndex] = data]
            /\ enqueueIndex' = Uart_FifoGetNextIndex(enqueueIndex)
            /\ fret' = 1
       ELSE /\ fret' = 0
            /\ UNCHANGED <<fifo, enqueueIndex>>
    /\ fq' = IF fret' = 1 THEN Append(fq, data) ELSE fq
    /\ fifoOp' = "enq"
    /\ UNCHANGED dequeueIndex

Uart_FifoDequeue ==
    /\ IF ~Uart_FifoIsEmpty
       THEN /\ fret' = fifo[dequeueIndex]
            /\ dequeueIndex' = Uart_FifoGetNextIndex(dequeueIndex)
       ELSE /\ fret' = 0
            /\ UNCHANGED dequeueIndex
    /\ fq' = IF fq # <<>> THEN Tail(fq) ELSE fq
    /\ fifoOp' = "deq"
    /\ UNCHANGED <<fifo, enqueueIndex>>

Uart_FifoClear ==
    /\ fifo' = [i \in 0..(UART_BUFFER_SIZE - 1) |-> 0]
    /\ dequeueIndex' = 0
    /\ enqueueIndex' = 0
    /\ fq' = <<>>
    /\ fifoOp' = "clear"
    /\ UNCHANGED fret

\* Uart_Send(buffer, length): the bytes go out on the line in order
Uart_Send(data) == tx' = Append(tx, [op |-> "send", data |-> data])

(***************************************************************************)
(* DriveController.c                                                       *)
(***************************************************************************)
\* Motor(motor, direction): the two GPIO writes for one motor
Motor(motor, direction, p) ==
    LET pin1 == IF motor = LEFT THEN "PA3" ELSE "PG0"
        pin2 == IF motor = LEFT THEN "PA4" ELSE "PG1"
    IN  IF motor \notin {LEFT, RIGHT} THEN p
        ELSE CASE direction = STOP     -> [p EXCEPT ![pin1] = 0, ![pin2] = 0]
               [] direction = FORWARD  -> [p EXCEPT ![pin1] = 1, ![pin2] = 0]
               [] direction = BACKWARD -> [p EXCEPT ![pin1] = 0, ![pin2] = 1]
               [] OTHER                -> p

DriveCtrl_Stop(p) == Motor(RIGHT, STOP, Motor(LEFT, STOP, p))
DriveCtrl_Forward(p) == Motor(RIGHT, FORWARD, Motor(LEFT, FORWARD, p))
DriveCtrl_Backward(p) == Motor(RIGHT, BACKWARD, Motor(LEFT, BACKWARD, p))
DriveCtrl_Turn(direction, p) ==
    CASE direction = LEFT        -> Motor(RIGHT, FORWARD, Motor(LEFT, STOP, p))
      [] direction = SHARP_LEFT  -> Motor(RIGHT, FORWARD, Motor(LEFT, BACKWARD, p))
      [] direction = RIGHT       -> Motor(RIGHT, STOP, Motor(LEFT, FORWARD, p))
      [] direction = SHARP_RIGHT -> Motor(RIGHT, BACKWARD, Motor(LEFT, FORWARD, p))
      [] OTHER                   -> p

\* conversion of the non-negative value halves / 2 to uint16_t, the type of
\* the argument of TIM2_SetCompare1 and TIM2_SetCompare2: the fraction is
\* dropped
ToUint16(halves) == (halves \div 2) % 65536

\* DriveCtrl_SetSpeed without the test of percentSpeed > 100
DriveCtrl_SetSpeed_NoClamp(percentSpeed) ==
    LET SCALE_FACTOR == PWM_TIMER_MAX_COUNT \div 100
        v == ToUint16(2 * SCALE_FACTOR * percentSpeed + 1)
    IN  <<v, v>>

\* DriveCtrl_SetSpeed: the value written to both compare registers,
\* (SCALE_FACTOR * percentSpeed) + 0.5 converted to an integer; the values
\* are kept in halves
DriveCtrl_SetSpeed(percentSpeed) ==
    LET SCALE_FACTOR == PWM_TIMER_MAX_COUNT \div 100
        p == IF percentSpeed > 100 THEN 100 ELSE percentSpeed
        v == ToUint16(2 * SCALE_FACTOR * p + 1)
    IN  <<v, v>>

PinsLow == [n \in {"PA3", "PA4", "PG0", "PG1"} |-> 0]

(***************************************************************************)
(* Esp8266.c : WaitForResponse                                             *)
(***************************************************************************)
\* the call WaitForResponse(mask, timeout) made from a place that goes on at ret
Call_WaitForResponse(mask, t, ret) ==
    /\ msgType' = mask
    /\ timeout' = t
    /\ wfr_ret' = ret
    /\ pc' = "wfr_test"
    /\ UNCHANGED <<acc, wfr_val>>

\* mutant: the wait returns without the flag being set
WFR_Test_NoCheck ==
    /\ pc = "wfr_test"
    /\ pc' = "wfr_load"
    /\ UNCHANGED <<engineVars, uartVars, tx, waitVars, recvVars, sendVars,
                   driveVars, streamVars, touches, hist>>

\* mutant: the loop counts timeout down, and a failed test with the
\* allowance used up returns 0
WFR_Test_GivesUp ==
    /\ pc = "wfr_test"
    /\ IF BitAnd(status, msgType) = msgType
       THEN /\ pc' = "wfr_load"
            /\ UNCHANGED wfr_val
       ELSE /\ pc' = wfr_ret
            /\ wfr_val' = 0
    /\ UNCHANGED <<engineVars, uartVars, tx, msgType, timeout, acc, wfr_ret,
                   recvVars, sendVars, driveVars, streamVars, touches, hist>>

\* while(1) if((status & msgType) == msgType); a failed test loops back to
\* itself, whatever timeout is
WFR_Test ==
    /\ pc = "wfr_test"
    /\ BitAnd(status, msgType) = msgType
    /\ pc' = "wfr_load"
    /\ UNCHANGED <<engineVars, uartVars, tx, waitVars, recvVars, sendVars,
                   driveVars, streamVars, touches, hist>>

\* status &= ~msgType, the load of status
WFR_Load ==
    /\ pc = "wfr_load"
    /\ acc' = status
    /\ pc' = "wfr_store"
    /\ hist' = [hist EXCEPT !.lastWait = [valid |-> FALSE, mask |-> msgType,
                                           before |-> status, atStore |-> 0,
                                           after |-> 0]]
    /\ UNCHANGED <<engineVars, uartVars, tx, msgType, timeout, wfr_ret,
                   wfr_val, recvVars,
                   sendVars, driveVars, streamVars, touches>>

\* mutant: the clear leaves the status word as it was
ClearedStatus_Keep(loaded, mask) == loaded

\* the value status &= ~msgType stores
ClearedStatus(loaded, mask) == BitAnd(loaded, BitNot8(mask))

\* status &= ~msgType, the store; return 1
WFR_Store ==
    /\ pc = "wfr_store"
    /\ status' = ClearedStatus(acc, msgType)
    /\ pc' = wfr_ret
    /\ tx' = Append(tx, [op |-> "wait", data |-> <<msgType>>])
    /\ hist' = [hist EXCEPT
                  !.success = [f \in Flags |->
                                 IF BitAnd(msgType, f) # 0 THEN @[f] + 1 ELSE @[f]],
                  !.lastWait = [@ EXCEPT !.valid = TRUE, !.atStore = status,
                                         !.after = status']]
    /\ wfr_val' = 1
    /\ UNCHANGED <<esp_state, count, packet, packetSize, oob, uartVars,
                   msgType, timeout, acc, wfr_ret, recvVars, sendVars, driveVars, streamVars, touches>>

(***************************************************************************)
(* main.c : Initialize, and Esp8266.c : the modem set-up                   *)
(***************************************************************************)
\* Uart_Send(cmd) followed by WaitForResponse(mask): the body shared by
\* Esp8266_Validate, Esp8266_Reset, Esp8266_DisableEcho,
\* Esp8266_SetAccessPointName and the two halves of Esp8266_StartClient
SendThenWait(at, cmd, mask, t, ret) ==
    /\ pc = at
    /\ Uart_Send(cmd)
    /\ Call_WaitForResponse(mask, t, ret)
    /\ UNCHANGED <<engineVars, uartVars, recvVars, sendVars, driveVars,
                   streamVars, touches, hist>>

\* Esp8266_Initialize: status = 0; Uart_Initialize(ESP8266_BAUD)
Esp8266_Initialize ==
    /\ pc = "Esp8266_Initialize"
    /\ status' = 0
    /\ pc' = "Uart_SetRxCallback"
    /\ UNCHANGED <<esp_state, count, packet, packetSize, oob, uartVars, tx,
                   waitVars, recvVars, sendVars, driveVars, streamVars,
                   touches, hist>>

\* Esp8266_Initialize: Uart_SetRxCallback(Esp8266_ProcessRxByte)
Esp8266_Initialize_SetRxCallback ==
    /\ pc = "Uart_SetRxCallback"
    /\ Uart_SetRxCallback("Esp8266_ProcessRxByte")
    /\ pc' = "Uart_EnableRxInterrupt"
    /\ UNCHANGED <<engineVars, rxIntEnabled, fifoVars, tx, waitVars, recvVars, sendVars,
                   driveVars, streamVars, touches, hist>>

Uart_EnableRxInterrupt ==
    /\ pc = "Uart_EnableRxInterrupt"
    /\ rxIntEnabled' = TRUE
    /\ pc' = "Esp8266_Validate"
    /\ UNCHANGED <<engineVars, rxCallback, fifoVars, tx, waitVars, recvVars, sendVars,
                   driveVars, streamVars, touches, hist>>

Esp8266_Validate ==
    SendThenWait("Esp8266_Validate", CMD_AT, ESP8266_OK_MESSAGE,
                 TIMEOUT_SHORT, "Esp8266_Reset")

\* mutant: the reset command is not followed by its wait
Esp8266_Reset_NoWait ==
    /\ pc = "Esp8266_Reset"
    /\ Uart_Send(CMD_RST)
    /\ pc' = "Esp8266_DisableEcho"
    /\ UNCHANGED <<engineVars, uartVars, waitVars, recvVars, sendVars,
                   driveVars, streamVars, touches, hist>>

Esp8266_Reset ==
    SendThenWait("Esp8266_Reset", CMD_RST, ESP8266_READY_MESSAGE,
                 TIMEOUT_LONG, "Esp8266_DisableEcho")

Esp8266_DisableEcho ==
    SendThenWait("Esp8266_DisableEcho", CMD_ATE0, ESP8266_OK_MESSAGE,
                 TIMEOUT_SHORT, "Esp8266_Initialize_end")

\* Esp8266_Initialize, its last statement: status = 0
Esp8266_Initialize_end ==
    /\ pc = "Esp8266_Initialize_end"
    /\ status' = 0
    /\ pc' = "Esp8266_SetAccessPointName"
    /\ UNCHANGED <<esp_state, count, packet, packetSize, oob, uartVars, tx,
                   waitVars, recvVars, sendVars, driveVars, streamVars,
                   touches, hist>>

Esp8266_SetAccessPointName ==
    SendThenWait("Esp8266_SetAccessPointName", CMD_CWSAP, ESP8266_OK_MESSAGE,
                 TIMEOUT_SHORT, "Esp8266_StartClient")

\* Esp8266_StartClient: AT+CIPMUX=1 and its wait
Esp8266_StartClient ==
    SendThenWait("Esp8266_StartClient", CMD_CIPMUX, ESP8266_OK_MESSAGE,
                 TIMEOUT_SHORT, "Esp8266_StartClient_socket")

\* Esp8266_StartClient: AT+CIPSTART and its wait
Esp8266_StartClient_socket ==
    SendThenWait("Esp8266_StartClient_socket", CMD_CIPSTART,
                 ESP8266_OK_MESSAGE, TIMEOUT_SHORT, "main_init")

(***************************************************************************)
(* Esp8266.c : Esp8266_ReceiveMsg                                          *)
(***************************************************************************)
\* the return of Esp8266_ReceiveMsg with value ret, assigned to main's
\* unsigned short length and tested by the if
ReceiveMsg_Return(ret, h) ==
    /\ length' = ToUInt16(ret)
    /\ pc' = IF ToUInt16(ret) # 0 THEN "main_switch" ELSE "main_touch"
    /\ hist' = [h EXCEPT
                  !.lastRecv =
                      [h.recv EXCEPT
                         !.valid = TRUE,
                         !.ret = ret,
                         !.bytes =
                             [i \in 1..(IF ToUInt16(ret) < ESP8266_RX_BUFFER_SIZE
                                        THEN ToUInt16(ret)
                                        ELSE ESP8266_RX_BUFFER_SIZE)
                                |-> mbuf[i - 1]]],
                  !.recv = NoCall]

\* if(status & ESP8266_RX_PACKET_MESSAGE); return 0 when it is clear
RM_Test ==
    /\ pc = "rm_test"
    /\ UNCHANGED <<engineVars, uartVars, tx, waitVars, mbuf, cn, ci, sendVars,
                   driveVars, streamVars, touches>>
    /\ LET seen == BitAnd(status, ESP8266_RX_PACKET_MESSAGE) # 0
           h == [hist EXCEPT
                   !.recv = [NoCall EXCEPT
                               !.flagSeen = seen,
                               !.quiet = hist.called /\ ~hist.completedSince,
                               !.prev = hist.lastRecv.ret,
                               !.same = /\ status' = status
                                        /\ packet' = packet
                                        /\ packetSize' = packetSize
                                        /\ mbuf' = mbuf],
                   !.called = TRUE,
                   !.completedSince = FALSE,
                   !.act = [dir |-> -1, speed |-> -1]]
       IN  IF seen
           THEN /\ pc' = "rm_load"
                /\ hist' = h
                /\ UNCHANGED length
           ELSE ReceiveMsg_Return(0, h)

\* status &= ~ESP8266_RX_PACKET_MESSAGE, the load of status
RM_Load ==
    /\ pc = "rm_load"
    /\ acc' = status
    /\ pc' = "rm_store"
    /\ UNCHANGED <<engineVars, uartVars, tx, msgType, timeout, wfr_ret,
                   wfr_val, recvVars,
                   sendVars, driveVars, streamVars, touches, hist>>

\* status &= ~ESP8266_RX_PACKET_MESSAGE, the store
RM_Store ==
    /\ pc = "rm_store"
    /\ status' = ClearedStatus(acc, ESP8266_RX_PACKET_MESSAGE)
    /\ pc' = "rm_memcpy"
    /\ hist' = [hist EXCEPT !.recv.cleared =
                    BitAnd(status', ESP8266_RX_PACKET_MESSAGE) = 0]
    /\ UNCHANGED <<esp_state, count, packet, packetSize, oob, uartVars, tx,
                   waitVars, recvVars, sendVars, driveVars, streamVars,
                   touches>>

\* memcpy(p, packet, packetSize): the size is converted to size_t
RM_Memcpy ==
    /\ pc = "rm_memcpy"
    /\ cn' = ToUInt16(packetSize)
    /\ ci' = 0
    /\ pc' = "rm_copy"
    /\ UNCHANGED <<engineVars, uartVars, tx, waitVars, mbuf, length, sendVars,
                   driveVars, streamVars, touches, hist>>

\* memcpy copies one byte; past the end of the two 64-byte arrays the copy
\* reads and writes outside them
RM_CopyByte ==
    /\ pc = "rm_copy"
    /\ ci < cn
    /\ IF ci < ESP8266_RX_BUFFER_SIZE
       THEN /\ mbuf' = [mbuf EXCEPT ![ci] = packet[ci]]
            /\ ci' = ci + 1
            /\ UNCHANGED oob
       ELSE /\ oob' = TRUE
            /\ ci' = cn
            /\ UNCHANGED mbuf
    /\ UNCHANGED <<esp_state, count, packet, packetSize, status, uartVars, tx,
                   pc, waitVars, length, cn, sendVars, driveVars, streamVars,
                   touches, hist>>

\* return packetSize
RM_Return ==
    /\ pc = "rm_copy"
    /\ ci >= cn
    /\ ReceiveMsg_Return(packetSize, [hist EXCEPT !.recv.size = packetSize])
    /\ UNCHANGED <<engineVars, uartVars, tx, waitVars, mbuf, cn, ci, sendVars,
                   driveVars, streamVars, touches>>

(***************************************************************************)
(* Esp8266.c : Esp8266_SendMsg                                             *)
(***************************************************************************)
RECURSIVE Digits(_)
Digits(n) == IF n < 10 THEN <<48 + n>> ELSE Digits(n \div 10) \o <<48 + (n % 10)>>

\* sprintf "%d" of the unsigned short length, read back as an int
Sprintf_d(v) ==
    LET i == ToInt16(v)
    IN  IF i < 0 THEN <<45>> \o Digits(0 - i) ELSE Digits(i)

\* the call Esp8266_SendMsg(buffer, len) made from a place that goes on at ret
Call_SendMsg(buffer, len, ret) ==
    /\ sbuf' = buffer
    /\ slen' = len
    /\ snd_ret' = ret
    /\ pc' = "snd_cmd"

\* the array the parameter buffer points to
SendBuffer ==
    IF sbuf = "hello" THEN [i \in 0..5 |-> IF i < 5 THEN HELLO[i + 1] ELSE 0]
    ELSE mbuf

\* the first slen bytes of the buffer
Payload ==
    LET n == IF slen <= Cardinality(DOMAIN SendBuffer) THEN slen
             ELSE Cardinality(DOMAIN SendBuffer)
    IN  [i \in 1..n |-> SendBuffer[i - 1]]

\* the command line "AT+CIPSEND=1,<length>\r\n"
SendCommand == CMD_CIPSEND \o Sprintf_d(slen) \o CRLF

\* mutant: the payload is written without waiting for the prompt
SND_Cmd_NoWait ==
    /\ pc = "snd_cmd"
    /\ tx' = <<[op |-> "send", data |-> SendCommand]>>
    /\ pc' = "snd_data"
    /\ UNCHANGED <<engineVars, uartVars, waitVars, recvVars, sendVars,
                   driveVars, streamVars, touches, hist>>

\* sprintf, Uart_Send(buf, size), then WaitForResponse(ESP8266_TX_READY_MESSAGE)
SND_Cmd ==
    /\ pc = "snd_cmd"
    /\ tx' = <<[op |-> "send", data |-> SendCommand]>>
    /\ Call_WaitForResponse(ESP8266_TX_READY_MESSAGE, TIMEOUT_SHORT, "snd_data")
    /\ UNCHANGED <<engineVars, uartVars, recvVars, sendVars, driveVars,
                   streamVars, touches, hist>>

\* Uart_Send(buffer, length)
SND_Data ==
    /\ pc = "snd_data"
    /\ Uart_Send(Payload)
    /\ oob' = (oob \/ slen > Cardinality(DOMAIN SendBuffer))
    /\ pc' = "snd_term"
    /\ UNCHANGED <<esp_state, count, packet, packetSize, status, uartVars,
                   waitVars, recvVars, sendVars, driveVars, streamVars,
                   touches, hist>>

\* Uart_Send("\r\n", 2)
SND_Term ==
    /\ pc = "snd_term"
    /\ Uart_Send(CRLF)
    /\ pc' = "snd_return"
    /\ UNCHANGED <<engineVars, uartVars, waitVars, recvVars, sendVars,
                   driveVars, streamVars, touches, hist>>

SND_Return ==
    /\ pc = "snd_return"
    /\ pc' = snd_ret
    /\ UNCHANGED <<engineVars, uartVars, tx, waitVars, recvVars, sendVars,
                   driveVars, streamVars, touches, hist>>

(***************************************************************************)
(* main.c : main                                                           *)
(***************************************************************************)
\* DriveCtrl_SetSpeed(0); DriveCtrl_Stop(); before the main loop
Main_Init ==
    /\ pc = "main_init"
    /\ ccr' = DriveCtrl_SetSpeed(0)
    /\ pins' = DriveCtrl_Stop(pins)
    /\ pc' = "rm_test"
    /\ hist' = [hist EXCEPT !.phase = "loop"]
    /\ UNCHANGED <<engineVars, uartVars, tx, waitVars, recvVars, sendVars,
                   streamVars, touches>>

\* the drive calls switch(packet[0]) makes: the pins, the compare registers
\* and the calls made (direction, speed argument)
Dispatch(d, s, p, c) ==
    CASE d = STOP     -> [pins |-> DriveCtrl_Stop(p),
                          ccr |-> DriveCtrl_SetSpeed(0),
                          act |-> [dir |-> STOP, speed |-> 0]]
      [] d = FORWARD  -> [pins |-> DriveCtrl_Forward(p),
                          ccr |-> DriveCtrl_SetSpeed(s),
                          act |-> [dir |-> FORWARD, speed |-> s]]
      [] d = BACKWARD -> [pins |-> DriveCtrl_Backward(p),
                          ccr |-> DriveCtrl_SetSpeed(s),
                          act |-> [dir |-> BACKWARD, speed |-> s]]
      [] d = LEFT     -> [pins |-> DriveCtrl_Turn(LEFT, p),
                          ccr |-> DriveCtrl_SetSpeed(s),
                          act |-> [dir |-> LEFT, speed |-> s]]
      [] d = RIGHT    -> [pins |-> DriveCtrl_Turn(RIGHT, p),
                          ccr |-> DriveCtrl_SetSpeed(s),
                          act |-> [dir |-> RIGHT, speed |-> s]]
      [] OTHER        -> [pins |-> p, ccr |-> c,
                          act |-> [dir |-> -1, speed |-> -1]]

\* mutant: the packet is acted on and not echoed
Main_Switch_NoEcho ==
    /\ pc = "main_switch"
    /\ LET r == Dispatch(mbuf[0], mbuf[1], pins, ccr)
       IN  /\ pins' = r.pins
           /\ ccr' = r.ccr
           /\ hist' = [hist EXCEPT !.act = r.act]
    /\ pc' = "main_touch"
    /\ UNCHANGED <<engineVars, uartVars, tx, waitVars, recvVars, sendVars,
                   streamVars, touches>>

\* the body of if(length = Esp8266_ReceiveMsg(packet)): the switch, then
\* the call Esp8266_SendMsg(packet, length)
Main_Switch ==
    /\ pc = "main_switch"
    /\ LET r == Dispatch(mbuf[0], mbuf[1], pins, ccr)
       IN  /\ pins' = r.pins
           /\ ccr' = r.ccr
           /\ hist' = [hist EXCEPT !.act = r.act]
    /\ Call_SendMsg("packet", length, "main_touch")
    /\ UNCHANGED <<engineVars, uartVars, tx, waitVars, recvVars, streamVars,
                   touches>>

\* TSL_Action(); IsTouchSensePressed() returns 1: Esp8266_SendMsg("Hello", 5)
Main_TouchPressed ==
    /\ pc = "main_touch"
    /\ touches < MaxTouches
    /\ touches' = touches + 1
    /\ Call_SendMsg("hello", 5, "rm_test")
    /\ UNCHANGED <<engineVars, uartVars, tx, waitVars, recvVars, driveVars,
                   streamVars, hist>>

\* TSL_Action(); IsTouchSensePressed() returns 0: back to the top of the loop
Main_NoTouch ==
    /\ pc = "main_touch"
    /\ pc' = "rm_test"
    /\ UNCHANGED <<engineVars, uartVars, tx, waitVars, recvVars, sendVars,
                   driveVars, streamVars, touches, hist>>

(***************************************************************************)
(* Byte streams fed to the state machine                                   *)
(***************************************************************************)
Literals == <<OK_MSG, READY_MSG, TX_READY_MSG, RX_PACKET_MSG>>

\* the status bit the i-th literal stands for
LiteralFlag(i) ==
    CASE i = 1 -> ESP8266_OK_MESSAGE
      [] i = 2 -> ESP8266_READY_MESSAGE
      [] i = 3 -> ESP8266_TX_READY_MESSAGE
      [] i = 4 -> ESP8266_RX_PACKET_MESSAGE

\* decimal text of n >= 0, as the modem writes the length field
RECURSIVE Dec(_)
Dec(n) == IF n < 10 THEN <<48 + n>> ELSE Dec(n \div 10) \o <<48 + (n % 10)>>

\* "+IPD,1,<len>:"
PacketHeader(len) == RX_PACKET_MSG \o Dec(len) \o <<COLON>>

\* body bytes: NUL, a direction code, ':' and the first bytes of literals,
\* and bytes with the top bit set
BodyBytes == {0, 1, 58, 79, 200}

RECURSIVE SeqsOfLen(_, _)
SeqsOfLen(S, n) ==
    IF n = 0 THEN {<<>>}
    ELSE {<<x>> \o s : x \in S, s \in SeqsOfLen(S, n - 1)}

\* a long body whose i-th byte is seed + 37 * i (mod 256)
PatternBody(len, seed) == [i \in 1..len |-> (seed + 37 * (i - 1)) % 256]

LongLens == {9, 10} \cup
            ((ESP8266_RX_BUFFER_SIZE - 1)..(ESP8266_RX_BUFFER_SIZE + MaxOverrun))

Scenario(kind, lit, off, repl, len, body) ==
    [kind |-> kind, lit |-> lit, off |-> off, repl |-> repl,
     len |-> len, body |-> body]

CorruptScenarios ==
    UNION {{Scenario("corrupt", l, o, r, 0, <<>>) :
               r \in Byte \ {Literals[l][o]}} :
           <<l, o>> \in {p \in (1..4) \X (1..7) : p[2] <= Len(Literals[p[1]])}}

PacketScenarios ==
    UNION {{Scenario("packet", 4, 0, 0, n, b) : b \in SeqsOfLen(BodyBytes, n)} :
           n \in 0..MaxFullLen}
    \cup
    {Scenario("packet", 4, 0, 0, n, PatternBody(n, s)) :
        n \in LongLens, s \in {1, 130, 255}}

\* a header followed by len digits and no ':'
LengthTextScenarios ==
    {Scenario("lentext", 4, 0, 0, n, <<>>) :
        n \in ESP8266_RX_BUFFER_SIZE..(ESP8266_RX_BUFFER_SIZE + MaxOverrun)}

\* a complete packet with the body given, followed by a second packet of
\* declared length len whose body is PatternBody(len, repl)
PairScenarios ==
    {Scenario("pair", 4, 0, 0, n, b) :
        n \in 1..(MaxFullLen + 1), b \in {<<FORWARD, 75>>, <<79>>}}

\* the first off bytes of the literal repl, then the whole literal lit,
\* whose first byte is not the byte repl goes on with
OverlapScenarios ==
    {Scenario("overlap", l, k, t, 0, <<>>) :
        <<l, k, t>> \in {q \in (1..3) \X (1..6) \X (1..4) :
                            /\ q[2] < Len(Literals[q[3]])
                            /\ Literals[q[3]][q[2] + 1] # Literals[q[1]][1]}}

\* a length field of len bytes that "%d" does not convert: empty, or the
\* byte first ('x', '-', '+' or ' ') followed by '5's after 'x' and by 'x's
\* otherwise
BadField(first, len) ==
    [i \in 1..len |-> IF i = 1 THEN first
                      ELSE IF first = 120 THEN 53 ELSE 120]

\* the packet "+IPD,1,2:" FORWARD 75, then a header with such a field and
\* the ':'
BadLengthScenarios ==
    {Scenario("badlen", 4, 0, c, n, <<FORWARD, 75>>) :
        c \in {120, 45, 43, 32},
        n \in {0, 1, 2} \cup
              ((ESP8266_RX_BUFFER_SIZE - 1)..(ESP8266_RX_BUFFER_SIZE + 1))}

\* "+IPD,1,-<len>:" and the bytes of body
SignedLengthScenarios ==
    {Scenario("signed", 4, 0, 0, n, b) : n \in {1, 5}, b \in {<<79>>, <<1, 75>>}}

\* a packet whose body is the text of the literal lit followed by that of
\* the literal repl, then "OK\r\n" after the packet
BodyLiteralScenarios ==
    {Scenario("bodylit", l, 0, t, Len(Literals[l] \o Literals[t]),
              Literals[l] \o Literals[t]) : l \in 1..4, t \in 1..4}

Scenarios ==
    {Scenario("exact", l, 0, 0, 0, <<>>) : l \in 1..4}
    \cup BodyLiteralScenarios
    \cup SignedLengthScenarios
    \cup BadLengthScenarios
    \cup CorruptScenarios
    \cup PacketScenarios
    \cup LengthTextScenarios
    \cup PairScenarios
    \cup OverlapScenarios

StreamOf(s) ==
    CASE s.kind = "exact"   -> Literals[s.lit]
      [] s.kind = "corrupt" -> [Literals[s.lit] EXCEPT ![s.off] = s.repl]
      [] s.kind = "packet"  -> PacketHeader(s.len) \o s.body
      [] s.kind = "lentext" -> RX_PACKET_MSG \o [i \in 1..s.len |-> 49]
      [] s.kind = "pair"    -> PacketHeader(Len(s.body)) \o s.body
                               \o PacketHeader(s.len)
                               \o PatternBody(s.len, s.repl)
      [] s.kind = "badlen"  -> PacketHeader(Len(s.body)) \o s.body
                               \o RX_PACKET_MSG \o BadField(s.repl, s.len)
                               \o <<COLON>>
      [] s.kind = "signed"  -> RX_PACKET_MSG \o <<45>> \o Dec(s.len)
                               \o <<COLON>> \o s.body
      [] s.kind = "bodylit" -> PacketHeader(s.len) \o s.body \o OK_MSG
      [] s.kind = "overlap" -> SubSeq(Literals[s.repl], 1, s.off)
                               \o Literals[s.lit]

EngineInit ==
    /\ esp_state = ESP8266_RESET
    /\ count = 0
    /\ packet = [i \in 0..(ESP8266_RX_BUFFER_SIZE - 1) |-> 0]
    /\ packetSize = 0
    /\ status = 0
    /\ oob = FALSE

\* the rest of the state as main finds it when Initialize has set up the
\* peripherals and calls enableInterrupts()
PollingInit ==
    /\ rxCallback = "NULL"
    /\ rxIntEnabled = FALSE
    /\ FifoInit
    /\ tx = <<>>
    /\ msgType = 0
    /\ timeout = "none"
    /\ wfr_val = -1
    /\ acc = 0
    /\ wfr_ret = "none"
    /\ mbuf = [i \in 0..(ESP8266_RX_BUFFER_SIZE - 1) |-> 0]
    /\ length = 0
    /\ cn = 0
    /\ ci = 0
    /\ sbuf = "none"
    /\ slen = 0
    /\ snd_ret = "none"
    /\ pins = PinsLow
    /\ ccr = <<0, 0>>
    /\ msgs = 0
    /\ touches = 0
    /\ hist = HistInit

ProgramInit ==
    /\ PollingInit
    /\ fin = NoFifoRun

NoScenario == Scenario("none", 0, 0, 0, 0, <<>>)

(***************************************************************************)
(* SpecRx: byte streams handed to Esp8266_ProcessRxByte, one byte a step   *)
(***************************************************************************)
InitRx ==
    /\ EngineInit
    /\ ProgramInit
    /\ pc = "none"
    /\ sc \in Scenarios
    /\ input = StreamOf(sc)
    /\ nfed = 0

\* the next byte of the stream is handed to the state machine
FeedByte ==
    /\ input # <<>>
    /\ Esp8266_ProcessRxByte(Head(input))
    /\ input' = Tail(input)
    /\ nfed' = nfed + 1
    /\ UNCHANGED <<sc, msgs, uartVars, tx, pc, waitVars, recvVars, sendVars,
                   driveVars, touches, hist>>

NextRx == FeedByte

SpecRx == InitRx /\ [][NextRx]_vars

(***************************************************************************)
(* SpecByte: one call of Esp8266_ProcessRxByte from each parser state      *)
(***************************************************************************)
\* the parser states the machine can be in: the state, the progress count
\* and the recorded length
ParserStates ==
    {<<ESP8266_RESET, c, 0>> : c \in {0, 1, 4}}
    \cup {<<ESP8266_GET_OK, c, 0>> : c \in 1..(Len(OK_MSG) - 1)}
    \cup {<<ESP8266_GET_READY, c, 0>> : c \in 1..(Len(READY_MSG) - 1)}
    \cup {<<ESP8266_GET_RX_HEADER, c, 0>> : c \in 1..(Len(RX_PACKET_MSG) - 1)}
    \cup {<<ESP8266_GET_TX, 1, 0>>}
    \cup {<<ESP8266_GET_RX_PACKET_SIZE, c, 0>> :
             c \in {0, 1, 2} \cup
                   ((ESP8266_RX_BUFFER_SIZE - 1)..(ESP8266_RX_BUFFER_SIZE + 1))}
    \cup {<<ESP8266_GET_RX_PACKET, 0, n>> : n \in {0, 1, 2}}
    \cup {<<ESP8266_GET_RX_PACKET, 1, 2>>}
    \cup {<<ESP8266_GET_RX_PACKET, c, ESP8266_RX_BUFFER_SIZE + 2>> :
             c \in (ESP8266_RX_BUFFER_SIZE - 1)..(ESP8266_RX_BUFFER_SIZE + 1)}

\* packet[] in a parser state: the length text read so far, else a body
BufferIn(ps) ==
    [i \in 0..(ESP8266_RX_BUFFER_SIZE - 1) |->
        IF ps[1] = ESP8266_GET_RX_PACKET_SIZE /\ i < ps[2] THEN 49 ELSE 0]

InitByte ==
    /\ ProgramInit
    /\ pc = "none"
    /\ sc = NoScenario
    /\ nfed = 0
    /\ \E ps \in ParserStates :
          /\ esp_state = ps[1]
          /\ count = ps[2]
          /\ oob = (ps[2] > ESP8266_RX_BUFFER_SIZE)
          /\ packetSize = ps[3]
          /\ packet = BufferIn(ps)
    /\ status \in 0..15
    /\ input \in {<<b>> : b \in Byte}

NextByte == FeedByte

SpecByte == InitByte /\ [][NextByte]_vars

\* Uart_Initialize(baud): UART2_DeInit, UART2_Init and UART2_Cmd program the
\* UART2 registers; no statement touches fifo[] or the indices
Uart_Initialize ==
    /\ fifoOp' = "init"
    /\ UNCHANGED <<fifo, enqueueIndex, dequeueIndex, fret, fq>>

\* Uart_IsRxDataReady
Uart_IsRxDataReady == IF ~Uart_FifoIsEmpty THEN 1 ELSE 0

(***************************************************************************)
(* SpecFifoTrip: the FIFO of Uart.c filled with n bytes and drained again, *)
(* after off enqueue/dequeue pairs have moved the indices                  *)
(***************************************************************************)
nonFifoVars == <<engineVars, rxCallback, rxIntEnabled, tx, pc, waitVars,
                 recvVars, sendVars, driveVars, streamVars, touches, hist>>

FifoOffsets == {0, 1, 40, UART_BUFFER_SIZE - 1}
FifoSeeds == {0, 201}

\* the k-th byte (from 0) of the sequence a run enqueues
Data(seed, k) == (seed + 37 * k) % 256

InitFifoTrip ==
    /\ EngineInit
    /\ PollingInit
    /\ pc = "none"
    /\ sc = NoScenario
    /\ input = <<>>
    /\ nfed = 0
    /\ fin \in {[kind |-> "trip", n |-> n, off |-> o, seed |-> sd,
                  a |-> 0, e |-> 0, d |-> 0] :
                    n \in 0..UART_BUFFER_SIZE, o \in FifoOffsets,
                    sd \in FifoSeeds}

TripAdvanceEnq ==
    /\ fin.kind = "trip"
    /\ fin.a < 2 * fin.off
    /\ fin.a % 2 = 0
    /\ Uart_FifoEnqueue(170)
    /\ fin' = [fin EXCEPT !.a = @ + 1]
    /\ UNCHANGED nonFifoVars

TripAdvanceDeq ==
    /\ fin.kind = "trip"
    /\ fin.a % 2 = 1
    /\ Uart_FifoDequeue
    /\ fin' = [fin EXCEPT !.a = @ + 1]
    /\ UNCHANGED nonFifoVars

TripFill ==
    /\ fin.kind = "trip"
    /\ fin.a = 2 * fin.off
    /\ fin.e < fin.n
    /\ Uart_FifoEnqueue(Data(fin.seed, fin.e))
    /\ fin' = [fin EXCEPT !.e = @ + 1]
    /\ UNCHANGED nonFifoVars

TripDrain ==
    /\ fin.kind = "trip"
    /\ fin.a = 2 * fin.off
    /\ fin.e = fin.n
    /\ fin.d < fin.n
    /\ Uart_FifoDequeue
    /\ fin' = [fin EXCEPT !.d = @ + 1]
    /\ UNCHANGED nonFifoVars

NextFifoTrip ==
    \/ TripAdvanceEnq
    \/ TripAdvanceDeq
    \/ TripFill
    \/ TripDrain

SpecFifoTrip == InitFifoTrip /\ [][NextFifoTrip]_vars

(***************************************************************************)
(* SpecFifo: any sequence of Uart_FifoEnqueue, Uart_FifoDequeue and        *)
(* Uart_FifoClear calls                                                    *)
(***************************************************************************)
InitFifo ==
    /\ EngineInit
    /\ PollingInit
    /\ pc = "none"
    /\ sc = NoScenario
    /\ input = <<>>
    /\ nfed = 0
    /\ fin \in {[kind |-> "free", seed |-> sd, lap |-> 0] : sd \in FifoSeeds}

\* the byte enqueued depends on the slot and on how often the enqueue
\* index has wrapped
FifoEnq ==
    /\ fin.kind = "free"
    /\ Uart_FifoEnqueue(Data(fin.seed + 101 * fin.lap, enqueueIndex))
    /\ fin' = [fin EXCEPT !.lap = IF enqueueIndex' < enqueueIndex
                                  THEN 1 - @ ELSE @]
    /\ UNCHANGED nonFifoVars

FifoDeq ==
    /\ fin.kind = "free"
    /\ Uart_FifoDequeue
    /\ UNCHANGED <<fin, nonFifoVars>>

FifoClr ==
    /\ fin.kind = "free"
    /\ Uart_FifoClear
    /\ UNCHANGED <<fin, nonFifoVars>>

\* Uart_Initialize(baud) called with the FIFO in any state
FifoInitialize ==
    /\ fin.kind = "free"
    /\ Uart_Initialize
    /\ UNCHANGED <<fin, nonFifoVars>>

NextFifo ==
    \/ FifoEnq
    \/ FifoDeq
    \/ FifoClr
    \/ FifoInitialize

SpecFifo == InitFifo /\ [][NextFifo]_vars

(***************************************************************************)
(* The modem: it sends whole messages, one byte per receive interrupt, at  *)
(* any moment between two steps of the polling context                     *)
(***************************************************************************)
\* "+IPD,1,<length>:<body>"
PacketMsg(body) == PacketHeader(Len(body)) \o body

\* Uart2RxInterrupt: the next byte of the message in flight, or the first
\* byte of a new message out of menu, arrives
RxInterrupt(menu, max) ==
    /\ rxIntEnabled
    /\ \E m \in (IF input = <<>> THEN menu ELSE {input}) :
          /\ input = <<>> => msgs < max
          /\ Uart_ReceiveISR(Head(m))
          /\ hist' = HistRx(Head(m))
          /\ input' = Tail(m)
          /\ msgs' = IF input = <<>> THEN msgs + 1 ELSE msgs
    /\ UNCHANGED <<sc, nfed, rxIntEnabled, tx, pc, waitVars, recvVars, sendVars,
                   driveVars, touches>>

(***************************************************************************)
(* SpecIsr: Uart_ReceiveISR invoked for each byte of a stream, with calls  *)
(* of Uart_SetRxCallback in between                                        *)
(***************************************************************************)
Callbacks == {"NULL", "Esp8266_ProcessRxByte", "Probe"}

IsrStreams == {OK_MSG, READY_MSG \o OK_MSG, TX_READY_MSG,
               PacketMsg(<<FORWARD, 75>>), OK_MSG \o PacketMsg(<<79>>)}

\* sc.reg is the argument of the last call of Uart_SetRxCallback
InitIsr ==
    /\ EngineInit
    /\ PollingInit
    /\ pc = "none"
    /\ sc = [kind |-> "isr", reg |-> "NULL"]
    /\ input \in IsrStreams
    /\ nfed = 0
    /\ fin = [kind |-> "isr", calls |-> 0, last |-> 0]

IsrReceive ==
    /\ sc.kind = "isr"
    /\ input # <<>>
    /\ Uart_ReceiveISR(Head(input))
    /\ input' = Tail(input)
    /\ nfed' = nfed + 1
    /\ UNCHANGED <<sc, msgs, rxIntEnabled, tx, pc, waitVars, recvVars,
                   sendVars, driveVars, touches, hist>>

IsrSetRxCallback ==
    /\ sc.kind = "isr"
    /\ \E func \in Callbacks :
          /\ Uart_SetRxCallback(func)
          /\ sc' = [sc EXCEPT !.reg = func]
    /\ UNCHANGED <<engineVars, rxIntEnabled, fifoVars, input, nfed, msgs, tx,
                   pc, waitVars, recvVars, sendVars, driveVars, touches, hist>>

NextIsr ==
    \/ IsrReceive
    \/ IsrSetRxCallback

SpecIsr == InitIsr /\ [][NextIsr]_vars

(***************************************************************************)
(* SpecSpeed: DriveCtrl_SetSpeed called with any byte                      *)
(***************************************************************************)
\* sc.s is the argument of the last call
InitSpeed ==
    /\ EngineInit
    /\ ProgramInit
    /\ pc = "none"
    /\ sc = [kind |-> "speed", s |-> 0]
    /\ input = <<>>
    /\ nfed = 0

SpeedSet ==
    /\ sc.kind = "speed"
    /\ \E percentSpeed \in Byte :
          /\ ccr' = DriveCtrl_SetSpeed(percentSpeed)
          /\ sc' = [sc EXCEPT !.s = percentSpeed]
    /\ UNCHANGED <<engineVars, uartVars, tx, pc, waitVars, recvVars, sendVars,
                   pins, input, nfed, msgs, touches, hist>>

NextSpeed == SpeedSet

SpecSpeed == InitSpeed /\ [][NextSpeed]_vars

(***************************************************************************)
(* SpecDrive: the DriveCtrl_* functions called in any order, one GPIO      *)
(* write at a time                                                         *)
(***************************************************************************)
\* pin1 and pin2 of Motor for a motor
MotorPins(motor) ==
    IF motor = LEFT THEN <<"PA3", "PA4">> ELSE <<"PG0", "PG1">>

\* the calls of GPIO_WriteHigh (level 1) and GPIO_WriteLow (level 0) that
\* Motor(motor, direction) makes, in order
MotorWrites(motor, direction) ==
    LET pin1 == MotorPins(motor)[1]
        pin2 == MotorPins(motor)[2]
    IN  IF motor \notin {LEFT, RIGHT} THEN <<>>
        ELSE CASE direction = STOP ->
                    <<[pin |-> pin1, level |-> 0], [pin |-> pin2, level |-> 0]>>
               [] direction = FORWARD ->
                    <<[pin |-> pin1, level |-> 1], [pin |-> pin2, level |-> 0]>>
               [] direction = BACKWARD ->
                    <<[pin |-> pin1, level |-> 0], [pin |-> pin2, level |-> 1]>>
               [] OTHER -> <<>>

\* the GPIO writes of one call of a DriveCtrl_* function, in order
GpioWrites(fn, direction) ==
    CASE fn = "DriveCtrl_Stop" ->
            MotorWrites(LEFT, STOP) \o MotorWrites(RIGHT, STOP)
      [] fn = "DriveCtrl_Forward" ->
            MotorWrites(LEFT, FORWARD) \o MotorWrites(RIGHT, FORWARD)
      [] fn = "DriveCtrl_Backward" ->
            MotorWrites(LEFT, BACKWARD) \o MotorWrites(RIGHT, BACKWARD)
      [] fn = "DriveCtrl_Turn" /\ direction = LEFT ->
            MotorWrites(LEFT, STOP) \o MotorWrites(RIGHT, FORWARD)
      [] fn = "DriveCtrl_Turn" /\ direction = SHARP_LEFT ->
            MotorWrites(LEFT, BACKWARD) \o MotorWrites(RIGHT, FORWARD)
      [] fn = "DriveCtrl_Turn" /\ direction = RIGHT ->
            MotorWrites(LEFT, FORWARD) \o MotorWrites(RIGHT, STOP)
      [] fn = "DriveCtrl_Turn" /\ direction = SHARP_RIGHT ->
            MotorWrites(LEFT, FORWARD) \o MotorWrites(RIGHT, BACKWARD)
      [] OTHER -> <<>>

\* the calls made: DriveCtrl_Turn with every direction code, the others
\* without an argument (direction STOP stands for none)
DriveCalls ==
    {<<fn, STOP>> : fn \in {"DriveCtrl_Stop", "DriveCtrl_Forward",
                            "DriveCtrl_Backward"}}
        \cup {<<"DriveCtrl_Turn", d>> : d \in STOP..SHARP_RIGHT}

\* sc is the call in progress: the function, its argument, the pins when it
\* was called and the number of GPIO writes it has made; the pins are as
\* InitMotorGpio leaves them
InitDrive ==
    /\ EngineInit
    /\ ProgramInit
    /\ pc = "drive"
    /\ sc = [kind |-> "drive", fn |-> "DriveCtrl_Initialize", dir |-> STOP,
             from |-> PinsLow, done |-> 0]
    /\ input = <<>>
    /\ nfed = 0

\* the call before has returned and the next one is made
DriveCall ==
    /\ sc.kind = "drive"
    /\ sc.done = Len(GpioWrites(sc.fn, sc.dir))
    /\ \E c \in DriveCalls :
          sc' = [sc EXCEPT !.fn = c[1], !.dir = c[2], !.from = pins,
                           !.done = 0]
    /\ UNCHANGED <<engineVars, uartVars, tx, pc, waitVars, recvVars, sendVars,
                   driveVars, input, nfed, msgs, touches, hist>>

\* the next GPIO_WriteHigh or GPIO_WriteLow of the call in progress
GpioWrite ==
    /\ sc.kind = "drive"
    /\ sc.done < Len(GpioWrites(sc.fn, sc.dir))
    /\ LET w == GpioWrites(sc.fn, sc.dir)[sc.done + 1]
       IN  pins' = [pins EXCEPT ![w.pin] = w.level]
    /\ sc' = [sc EXCEPT !.done = @ + 1]
    /\ UNCHANGED <<engineVars, uartVars, tx, pc, waitVars, recvVars, sendVars,
                   ccr, input, nfed, msgs, touches, hist>>

NextDrive ==
    \/ DriveCall
    \/ GpioWrite

SpecDrive == InitDrive /\ [][NextDrive]_vars

(***************************************************************************)
(* SpecSetup: Initialize() of main.c from enableInterrupts() on            *)
(***************************************************************************)
SetupMenu == {OK_MSG, READY_MSG, TX_READY_MSG, PacketMsg(<<FORWARD, 75>>)}

InitSetup ==
    /\ EngineInit
    /\ ProgramInit
    /\ pc = "Esp8266_Initialize"
    /\ sc = NoScenario
    /\ input = <<>>
    /\ nfed = 0

RxInterruptSetup == RxInterrupt(SetupMenu, MaxSetupMsgs)

NextSetup ==
    \/ Esp8266_Initialize
    \/ Esp8266_Initialize_SetRxCallback
    \/ Uart_EnableRxInterrupt
    \/ Esp8266_Validate
    \/ Esp8266_Reset
    \/ Esp8266_DisableEcho
    \/ Esp8266_Initialize_end
    \/ Esp8266_SetAccessPointName
    \/ Esp8266_StartClient
    \/ Esp8266_StartClient_socket
    \/ WFR_Test
    \/ WFR_Load
    \/ WFR_Store
    \/ RxInterruptSetup

SpecSetup == InitSetup /\ [][NextSetup]_vars

\* the transmissions and waits of a complete set-up
SetupTrace ==
    <<[op |-> "send", data |-> CMD_AT],
      [op |-> "wait", data |-> <<ESP8266_OK_MESSAGE>>],
      [op |-> "send", data |-> CMD_RST],
      [op |-> "wait", data |-> <<ESP8266_READY_MESSAGE>>],
      [op |-> "send", data |-> CMD_ATE0],
      [op |-> "wait", data |-> <<ESP8266_OK_MESSAGE>>],
      [op |-> "send", data |-> CMD_CWSAP],
      [op |-> "wait", data |-> <<ESP8266_OK_MESSAGE>>],
      [op |-> "send", data |-> CMD_CIPMUX],
      [op |-> "wait", data |-> <<ESP8266_OK_MESSAGE>>],
      [op |-> "send", data |-> CMD_CIPSTART],
      [op |-> "wait", data |-> <<ESP8266_OK_MESSAGE>>]>>

(***************************************************************************)
(* SpecLoop: main() from the return of Initialize() on, the modem having   *)
(* answered every set-up command once                                      *)
(***************************************************************************)
\* packet bodies the remote controller sends
LoopBodies ==
    {<<d, 75>> : d \in STOP..(SHARP_RIGHT + 1)} \cup {<<BACKWARD, 200>>, <<LEFT>>}

LoopMenu == {TX_READY_MSG} \cup {PacketMsg(b) : b \in LoopBodies}

LoopEntry ==
    /\ esp_state = ESP8266_RESET
    /\ count = Len(OK_MSG)
    /\ packet = [i \in 0..(ESP8266_RX_BUFFER_SIZE - 1) |-> 0]
    /\ packetSize = 0
    /\ status = 0
    /\ oob = FALSE
    /\ rxCallback = "Esp8266_ProcessRxByte"
    /\ rxIntEnabled = TRUE
    /\ FifoInit
    /\ fin = NoFifoRun
    /\ tx = SetupTrace
    /\ pc = "main_init"
    /\ msgType = ESP8266_OK_MESSAGE
    /\ timeout = TIMEOUT_SHORT
    /\ wfr_val = 1
    /\ acc = ESP8266_OK_MESSAGE
    /\ wfr_ret = "main_init"
    /\ mbuf = [i \in 0..(ESP8266_RX_BUFFER_SIZE - 1) |-> 0]
    /\ length = 0
    /\ cn = 0
    /\ ci = 0
    /\ sbuf = "none"
    /\ slen = 0
    /\ snd_ret = "none"
    /\ pins = PinsLow
    /\ ccr = <<0, 0>>
    /\ sc = NoScenario
    /\ input = <<>>
    /\ nfed = 0
    /\ touches = 0
    /\ hist = [HistInit EXCEPT
                 !.recognized = [f \in Flags |->
                                   CASE f = ESP8266_OK_MESSAGE -> 5
                                     [] f = ESP8266_READY_MESSAGE -> 1
                                     [] OTHER -> 0],
                 !.raised = [f \in Flags |->
                                   CASE f = ESP8266_OK_MESSAGE -> 5
                                     [] f = ESP8266_READY_MESSAGE -> 1
                                     [] OTHER -> 0],
                 !.success = [f \in Flags |->
                                   CASE f = ESP8266_OK_MESSAGE -> 5
                                     [] f = ESP8266_READY_MESSAGE -> 1
                                     [] OTHER -> 0],
                 !.lastWait = [valid |-> TRUE, mask |-> ESP8266_OK_MESSAGE,
                               before |-> ESP8266_OK_MESSAGE,
                               atStore |-> ESP8266_OK_MESSAGE, after |-> 0]]

InitLoop ==
    /\ LoopEntry
    /\ msgs = 0

RxInterruptLoop == RxInterrupt(LoopMenu, MaxLoopMsgs)

NextLoop ==
    \/ Main_Init
    \/ RM_Test
    \/ RM_Load
    \/ RM_Store
    \/ RM_Memcpy
    \/ RM_CopyByte
    \/ RM_Return
    \/ Main_Switch
    \/ SND_Cmd
    \/ WFR_Test
    \/ WFR_Load
    \/ WFR_Store
    \/ SND_Data
    \/ SND_Term
    \/ SND_Return
    \/ Main_TouchPressed
    \/ Main_NoTouch
    \/ RxInterruptLoop

SpecLoop == InitLoop /\ [][NextLoop]_vars

(***************************************************************************)
(* SpecLive: the main loop of SpecLoop, which never stops executing, with  *)
(* a modem that answers every "AT+CIPSEND" with the prompt "> " and sends  *)
(* commands of the remote controller at any moment                         *)
(***************************************************************************)
\* the commands the remote controller sends
LiveBodies == {<<STOP, 0>>, <<FORWARD, 75>>}

\* Uart2RxInterrupt: the next byte of the message in flight, or the first
\* byte of a new command, arrives
RxInterruptLive ==
    RxInterrupt({PacketMsg(b) : b \in LiveBodies}, MaxLoopMsgs)

\* Esp8266_SendMsg has written its command line and the modem has not
\* answered it yet
PromptOwed ==
    /\ pc \in {"wfr_test", "wfr_load", "wfr_store"}
    /\ wfr_ret = "snd_data"
    /\ hist.recognized[ESP8266_TX_READY_MESSAGE]
           = hist.success[ESP8266_TX_READY_MESSAGE]

\* Uart2RxInterrupt: the first byte of the modem's answer "> " arrives
ModemPrompt ==
    /\ rxIntEnabled
    /\ input = <<>>
    /\ PromptOwed
    /\ Uart_ReceiveISR(Head(TX_READY_MSG))
    /\ hist' = HistRx(Head(TX_READY_MSG))
    /\ input' = Tail(TX_READY_MSG)
    /\ UNCHANGED <<sc, nfed, msgs, rxIntEnabled, tx, pc, waitVars, recvVars,
                   sendVars, driveVars, touches>>

\* the steps of main and of the functions it calls
MainLoopStep ==
    \/ Main_Init
    \/ RM_Test
    \/ RM_Load
    \/ RM_Store
    \/ RM_Memcpy
    \/ RM_CopyByte
    \/ RM_Return
    \/ Main_Switch
    \/ SND_Cmd
    \/ WFR_Test
    \/ WFR_Load
    \/ WFR_Store
    \/ SND_Data
    \/ SND_Term
    \/ SND_Return
    \/ Main_NoTouch

NextLive ==
    \/ MainLoopStep
    \/ RxInterruptLive
    \/ ModemPrompt

\* the processor keeps executing main; the modem finishes the message it
\* has begun and answers the command line it was sent
LiveFairness ==
    /\ WF_vars(MainLoopStep)
    /\ WF_vars(input # <<>> /\ RxInterruptLive)
    /\ WF_vars(ModemPrompt)

SpecLive == InitLoop /\ [][NextLive]_vars /\ LiveFairness

(***************************************************************************)
(* Properties of the receive state machine (SpecRx)                        *)
(***************************************************************************)
StreamDone == input = <<>>

\* number of body bytes received after the header "+IPD,1,<len>:"
BodyFed == nfed - Len(PacketHeader(sc.len))

RxFlagSet == BitAnd(status, ESP8266_RX_PACKET_MESSAGE) # 0

\* C1 as claimed: after the exact bytes of any of the four literals, exactly
\* the literal's status flag is set and the machine is in ESP8266_RESET.
C1_AsClaimed ==
    (sc.kind = "exact" /\ StreamDone) =>
        /\ status = LiteralFlag(sc.lit)
        /\ esp_state = ESP8266_RESET

\* C1 (amended): after the exact bytes of "OK\r\n", "ready\r\n" or "> ",
\* exactly that literal's status flag is set and the machine is in
\* ESP8266_RESET; after the exact bytes of "+IPD,1," no flag is set and the
\* machine is in ESP8266_GET_RX_PACKET_SIZE with count 0.
C1_LiteralSetsItsFlag ==
    (sc.kind = "exact" /\ StreamDone) =>
        IF sc.lit \in 1..3
        THEN /\ status = LiteralFlag(sc.lit)
             /\ esp_state = ESP8266_RESET
        ELSE /\ status = 0
             /\ esp_state = ESP8266_GET_RX_PACKET_SIZE
             /\ count = 0

C1_Witness ==
    /\ sc.kind = "exact" /\ sc.lit = 2 /\ StreamDone
    /\ nfed = Len(READY_MSG)
    /\ status = ESP8266_READY_MESSAGE

\* C2: after a literal with one byte replaced by a different byte, at any
\* offset, the machine is in ESP8266_RESET and no status flag is set.
C2_CorruptedLiteralSetsNothing ==
    (sc.kind = "corrupt" /\ StreamDone) =>
        /\ esp_state = ESP8266_RESET
        /\ status = 0

C2_Witness ==
    /\ sc.kind = "corrupt" /\ sc.lit = 1 /\ sc.off = 2 /\ sc.repl = 79
    /\ StreamDone /\ nfed = Len(OK_MSG)
    /\ esp_state = ESP8266_RESET

\* C23: when a whole literal follows the first bytes of a literal, the
\* literal's first byte is consumed as the mismatch that sends the machine
\* to ESP8266_RESET, the rest of it is discarded there, and no flag is set.
C23_NoBacktrack ==
    sc.kind = "overlap" =>
        /\ status = 0
        /\ nfed > sc.off => esp_state = ESP8266_RESET
        /\ nfed \in 1..sc.off => esp_state # ESP8266_RESET

\* "O" then "OK\r\n"
C23_Witness ==
    /\ sc.kind = "overlap" /\ sc.lit = 1 /\ sc.repl = 1 /\ sc.off = 1
    /\ StreamDone /\ nfed = 1 + Len(OK_MSG)
    /\ esp_state = ESP8266_RESET
    /\ status = 0

\* C25 as claimed: after the header and a length field that does not
\* convert, the ':' leaves the machine in ESP8266_RESET, sets no status flag
\* (the packet flag of the packet before stays the only one) and leaves
\* packetSize at its previous value.
C25_AsClaimed ==
    (sc.kind = "badlen" /\ StreamDone) =>
        /\ esp_state = ESP8266_RESET
        /\ BitOr(status, ESP8266_RX_PACKET_MESSAGE) = ESP8266_RX_PACKET_MESSAGE
        /\ packetSize = Len(sc.body)

\* C25 for the fields that fit into packet[] with their terminator
C25_FittingFieldResets ==
    (sc.kind = "badlen" /\ sc.len < ESP8266_RX_BUFFER_SIZE /\ StreamDone) =>
        /\ esp_state = ESP8266_RESET
        /\ status = ESP8266_RX_PACKET_MESSAGE
        /\ packetSize = Len(sc.body)
        /\ oob = FALSE

\* C29 as claimed: whatever bytes have been received, the value a call of
\* Esp8266_ReceiveMsg returns is in 0..ESP8266_RX_BUFFER_SIZE.
C29_AsClaimed == ReceiveMsgResult \in 0..ESP8266_RX_BUFFER_SIZE

\* the machine is reading the body of a packet of declared length sc.len
InBody ==
    /\ sc.kind \in {"packet", "bodylit"}
    /\ sc.len >= 1
    /\ esp_state = ESP8266_GET_RX_PACKET

\* a byte received in the body state: before the sc.len-th the machine
\* stays in the body state and status is unchanged, the sc.len-th sends it
\* to ESP8266_RESET and sets the packet flag and no other
BodyByteOpaque ==
    LET k == nfed' - Len(PacketHeader(sc.len))
    IN  /\ k < sc.len =>
              (esp_state' = ESP8266_GET_RX_PACKET /\ status' = status)
        /\ k = sc.len =>
              /\ esp_state' = ESP8266_RESET
              /\ status' = BitOr(status, ESP8266_RX_PACKET_MESSAGE)
        /\ k <= sc.len

\* C30 as claimed: for every declared length L >= 1 the L bytes after the
\* header are consumed as body whatever they are, none of them sets the OK,
\* ready or prompt flag or starts a message, and only the L-th sets the
\* packet flag.
C30_AsClaimed == [][(InBody /\ nfed' = nfed + 1) => BodyByteOpaque]_vars

\* C30 for the declared lengths 1..64, for which the body fits into
\* packet[]; the "OK\r\n" that follows a body made of literals is matched
\* as a message again
C30_FittingBodyOpaque ==
    /\ [][(InBody /\ sc.len <= ESP8266_RX_BUFFER_SIZE /\ nfed' = nfed + 1) =>
            BodyByteOpaque]_vars
    /\ []((sc.kind = "bodylit" /\ StreamDone) =>
            /\ status = BitOr(ESP8266_RX_PACKET_MESSAGE, ESP8266_OK_MESSAGE)
            /\ \A i \in 0..(sc.len - 1) : packet[i] = sc.body[i + 1])

\* C3 as claimed: for every declared length L in 0..64, after
\* "+IPD,1,<L>:" and exactly L body bytes the packet flag is set, the
\* machine is in ESP8266_RESET, packet[0..L-1] is the body and the length
\* Esp8266_ReceiveMsg returns is L.
C3_AsClaimed ==
    (sc.kind = "packet" /\ sc.len \in 0..ESP8266_RX_BUFFER_SIZE /\ StreamDone) =>
        /\ RxFlagSet
        /\ esp_state = ESP8266_RESET
        /\ \A i \in 0..(sc.len - 1) : packet[i] = sc.body[i + 1]
        /\ packetSize = sc.len
        /\ ReceiveMsgResult = sc.len

\* C3 restricted to L in 1..64, where the code agrees with the claim
C3_NonEmptyPacket ==
    (sc.kind = "packet" /\ sc.len \in 1..ESP8266_RX_BUFFER_SIZE /\ StreamDone) =>
        /\ RxFlagSet
        /\ esp_state = ESP8266_RESET
        /\ \A i \in 0..(sc.len - 1) : packet[i] = sc.body[i + 1]
        /\ packetSize = sc.len
        /\ ReceiveMsgResult = sc.len

\* C8 as claimed: for every declared length L >= 1 and every k < L, after
\* the header and only k body bytes the packet flag is not set, the machine
\* is in ESP8266_GET_RX_PACKET and Esp8266_ReceiveMsg returns 0.
C8_AsClaimed ==
    (sc.kind = "packet" /\ sc.len >= 1 /\ BodyFed >= 0 /\ BodyFed < sc.len) =>
        /\ ~RxFlagSet
        /\ esp_state = ESP8266_GET_RX_PACKET
        /\ ReceiveMsgResult = 0

\* C8 restricted to declared lengths that fit the buffer
C8_TruncatedFits ==
    (/\ sc.kind = "packet" /\ sc.len \in 1..ESP8266_RX_BUFFER_SIZE
     /\ BodyFed >= 0 /\ BodyFed < sc.len) =>
        /\ ~RxFlagSet
        /\ esp_state = ESP8266_GET_RX_PACKET
        /\ ReceiveMsgResult = 0

\* C12 as claimed: whatever bytes are fed, no store into the packet buffer
\* has been made at an index outside 0..ESP8266_RX_BUFFER_SIZE-1, neither
\* while the length text is accumulated nor while the body is read.
C12_AsClaimed == oob = FALSE

\* C12 restricted to the streams that fit: a packet of declared length up
\* to ESP8266_RX_BUFFER_SIZE, or a length text of fewer characters than
\* that, is stored inside the buffer.
C12_FittingInputInBounds ==
    (\/ sc.kind \in {"exact", "corrupt"}
     \/ sc.kind = "packet" /\ sc.len <= ESP8266_RX_BUFFER_SIZE
     \/ sc.kind = "lentext" /\ nfed <= Len(RX_PACKET_MSG) + ESP8266_RX_BUFFER_SIZE)
        => oob = FALSE

\* the length of the first message of a pair, and the body of the packet
\* that completed last in a pair fed up to nfed bytes
FirstMsgLen == Len(PacketHeader(Len(sc.body))) + Len(sc.body)

LastCompleted ==
    IF nfed >= Len(StreamOf(sc)) THEN PatternBody(sc.len, sc.repl) ELSE sc.body

HeldPacket == [i \in 1..packetSize |-> packet[i - 1]]

\* C13 as claimed: while the packet flag is set, packetSize and the first
\* packetSize bytes of packet[] are the length and the body of the packet
\* that completed last, whatever has arrived of the following packet.
C13_AsClaimed ==
    (sc.kind = "pair" /\ nfed >= FirstMsgLen /\ RxFlagSet) =>
        /\ packetSize = Len(LastCompleted)
        /\ HeldPacket = LastCompleted

\* C13 up to the following packet's header: the held packet is intact
\* until the first character of the next length text arrives.
C13_IntactThroughHeader ==
    (/\ sc.kind = "pair"
     /\ nfed >= FirstMsgLen
     /\ nfed <= FirstMsgLen + Len(RX_PACKET_MSG)
     /\ RxFlagSet) =>
        /\ packetSize = Len(sc.body)
        /\ HeldPacket = sc.body

StatusBits == {1, 2, 4, 8, 16, 32, 64, 128}

\* the status bits a step sets
Raised == {b \in StatusBits : BitAnd(status, b) = 0 /\ BitAnd(status', b) # 0}

KeepsAndSetsOne ==
    /\ \A b \in StatusBits : BitAnd(status, b) # 0 => BitAnd(status', b) # 0
    /\ Cardinality(Raised) <= 1

\* C15 as claimed: from every parser state, progress count and status, one
\* call of Esp8266_ProcessRxByte with any byte leaves every set status bit
\* set and sets at most one more.
C15_AsClaimed == [][KeepsAndSetsOne]_vars

\* C15 for the calls whose store, if any, is inside packet[]
C15_InBoundsCallOnlySets ==
    [][count < ESP8266_RX_BUFFER_SIZE => KeepsAndSetsOne]_vars

(***************************************************************************)
(* Properties of the blocking wait and the set-up (SpecSetup)              *)
(***************************************************************************)
IsPrefix(a, b) == Len(a) <= Len(b) /\ a = SubSeq(b, 1, Len(a))

\* C4 as claimed: a wait that returned saw every bit of its mask set and
\* cleared exactly those bits: every other status bit is after the clear
\* what it was immediately before it.
C4_AsClaimed ==
    LET w == hist.lastWait
    IN  w.valid =>
            \A b \in StatusBits :
                IF BitAnd(w.mask, b) # 0
                THEN BitAnd(w.atStore, b) # 0 /\ BitAnd(w.after, b) = 0
                ELSE BitAnd(w.after, b) = BitAnd(w.atStore, b)

\* C4 relative to the value the clear loaded: the bits of the mask were set
\* in it and are stored clear, the other bits are stored as loaded.
C4_WaitClearsOnlyItsMask ==
    LET w == hist.lastWait
    IN  w.valid =>
            \A b \in StatusBits :
                IF BitAnd(w.mask, b) # 0
                THEN BitAnd(w.before, b) # 0 /\ BitAnd(w.after, b) = 0
                ELSE BitAnd(w.after, b) = BitAnd(w.before, b)

\* a wait for OK returns while a received packet is pending
C4_Witness ==
    /\ hist.lastWait.valid
    /\ hist.lastWait.mask = ESP8266_OK_MESSAGE
    /\ pc = wfr_ret
    /\ status = hist.lastWait.after
    /\ BitAnd(hist.lastWait.before, ESP8266_RX_PACKET_MESSAGE) # 0
    /\ BitAnd(status, ESP8266_RX_PACKET_MESSAGE) # 0

\* the flags the set-up waits for
WaitFlags == {ESP8266_OK_MESSAGE, ESP8266_READY_MESSAGE}

C9_SetupOrder ==
    hist.phase = "setup" => IsPrefix(tx, SetupTrace)

C9_Witness ==
    /\ tx = SetupTrace
    /\ LoopEntry
    /\ msgs = 6

\* a step takes status bit b from set to clear
Dropped(b) == BitAnd(status, b) # 0 /\ BitAnd(status', b) = 0

\* the step is the store of a clear whose call tested bit b and found it set
ObservedClear(b) ==
    \/ pc = "wfr_store" /\ BitAnd(msgType, b) # 0
    \/ pc = "rm_store" /\ b = ESP8266_RX_PACKET_MESSAGE

\* C14 as claimed: once the receive interrupt is enabled, a status bit goes
\* from set to clear only by the clear of a WaitForResponse or
\* Esp8266_ReceiveMsg call that tested that bit and found it set.
C14_AsClaimed ==
    [][rxIntEnabled => \A b \in StatusBits : Dropped(b) => ObservedClear(b)]_vars

\* C14 without "observed": once the receive interrupt is enabled, a status
\* bit goes from set to clear only by the store of one of the two clears.
C14_OnlyClearsDrop ==
    [][rxIntEnabled =>
         \A b \in StatusBits : Dropped(b) => pc \in {"wfr_store", "rm_store"}]_vars

WaitPcs == {"wfr_test", "wfr_load", "wfr_store"}

\* C16: WaitForResponse never returns 0, with TIMEOUT_SHORT as with
\* TIMEOUT_LONG: it is left only by the return 1 that follows the clear,
\* and while the bits of its mask are not all set the polling context takes
\* no step, so with a silent modem it stays in the wait for ever.
C16_NeverTimesOut ==
    [][/\ wfr_val' # 0
       /\ (pc \in WaitPcs /\ pc' \notin WaitPcs) =>
              (pc = "wfr_store" /\ wfr_val' = 1)
       /\ (pc = "wfr_test" /\ BitAnd(status, msgType) # msgType) =>
              (pc' = pc /\ wfr_val' = wfr_val /\ tx' = tx)]_vars

\* the wait for ready (TIMEOUT_LONG) with the modem silent from then on:
\* the flag is clear and no step is left to take
C16_Witness ==
    /\ pc = "wfr_test"
    /\ msgType = ESP8266_READY_MESSAGE
    /\ timeout = TIMEOUT_LONG
    /\ BitAnd(status, msgType) = 0
    /\ input = <<>>
    /\ msgs = MaxSetupMsgs
    /\ ~ENABLED NextSetup

(***************************************************************************)
(* Properties of the main loop (SpecLoop)                                  *)
(***************************************************************************)
\* C6: a call of Esp8266_ReceiveMsg that found the packet flag clear
\* returned 0 and changed nothing; one that found it set left it clear and
\* returned packetSize; and a call made when no packet completed since the
\* call before it began returned 0.
C6_ReceiveConsumes ==
    LET r == hist.lastRecv
    IN  r.valid =>
            /\ ~r.flagSeen => (r.ret = 0 /\ r.same)
            /\ r.flagSeen => (r.cleared /\ r.ret = r.size)
            /\ r.quiet => r.ret = 0

\* the second of two calls with no packet in between returns 0 after the
\* first returned a length
C6_Witness ==
    /\ hist.lastRecv.valid
    /\ hist.lastRecv.quiet
    /\ hist.lastRecv.prev = 2
    /\ hist.lastRecv.ret = 0
    /\ pc = "main_touch"

\* what the drive action for direction d leaves on the motor pins
PinsFor(d) ==
    CASE d = STOP -> DriveCtrl_Stop(pins)
      [] d = FORWARD -> DriveCtrl_Forward(pins)
      [] d = BACKWARD -> DriveCtrl_Backward(pins)
      [] OTHER -> DriveCtrl_Turn(d, pins)

Dispatched == pc = "snd_cmd" /\ sbuf = "packet"

\* C7 as claimed: after the dispatcher has handled a packet whose first
\* byte is a direction d in 0..6, the drive action for d was issued, and
\* the speed was set to the second byte (to 0 for stop).
C7_AsClaimed ==
    (Dispatched /\ mbuf[0] \in STOP..SHARP_RIGHT) =>
        /\ hist.act.dir = mbuf[0]
        /\ pins = PinsFor(mbuf[0])
        /\ hist.act.speed = IF mbuf[0] = STOP THEN 0 ELSE mbuf[1]

\* C7 restricted to the directions the switch of main handles
C7_HandledDirections ==
    (Dispatched /\ mbuf[0] \in {STOP, FORWARD, BACKWARD, LEFT, RIGHT}) =>
        /\ hist.act.dir = mbuf[0]
        /\ pins = PinsFor(mbuf[0])
        /\ hist.act.speed = IF mbuf[0] = STOP THEN 0 ELSE mbuf[1]

InPromptWait == pc \in {"wfr_test", "wfr_load", "wfr_store"} /\ wfr_ret = "snd_data"

\* C10: Esp8266_SendMsg writes "AT+CIPSEND=1,<length>\r\n", then its wait
\* for the transmit prompt returns, then it writes the length bytes of the
\* buffer, then "\r\n"; nothing of the payload goes out before the wait
\* has returned.
C10_SendOrder ==
    LET cmd == [op |-> "send", data |-> CMD_CIPSEND \o Dec(slen) \o CRLF]
        wt  == [op |-> "wait", data |-> <<ESP8266_TX_READY_MESSAGE>>]
        pay == [op |-> "send",
                data |-> [i \in 1..slen |->
                            IF sbuf = "hello" THEN HELLO[i] ELSE mbuf[i - 1]]]
        end == [op |-> "send", data |-> CRLF]
    IN  /\ InPromptWait => tx = <<cmd>>
        /\ pc = "snd_data" =>
              /\ tx = <<cmd, wt>>
              /\ hist.lastWait.valid
              /\ BitAnd(hist.lastWait.before, ESP8266_TX_READY_MESSAGE) # 0
              /\ BitAnd(hist.lastWait.after, ESP8266_TX_READY_MESSAGE) = 0
        /\ pc = "snd_term" => tx = <<cmd, wt, pay>>
        /\ pc = "snd_return" => tx = <<cmd, wt, pay, end>>

\* the echo of the packet [1, 75] has gone out completely
C10_Witness ==
    /\ pc = "snd_return"
    /\ sbuf = "packet"
    /\ slen = 2
    /\ Len(tx) = 4
    /\ tx[3].data = <<FORWARD, 75>>

InEcho ==
    /\ sbuf = "packet"
    /\ \/ pc \in {"snd_cmd", "snd_data", "snd_term", "snd_return"}
       \/ InPromptWait

\* C11: after Esp8266_ReceiveMsg has returned a nonzero length the main loop
\* calls Esp8266_SendMsg with that length and with its buffer as the call
\* left it, whatever the first byte is, and is back at the touch test only
\* once the command for that length and those bytes have been written.
C11_EchoesWhatItReceived ==
    LET r == hist.lastRecv
    IN  /\ pc = "main_switch" => (r.valid /\ r.ret # 0 /\ length = r.ret)
        /\ InEcho =>
              /\ r.valid /\ r.ret # 0
              /\ slen = r.ret
              /\ [i \in 1..slen |-> mbuf[i - 1]] = r.bytes
        /\ (pc = "main_touch" /\ r.valid /\ r.ret # 0) =>
              /\ Len(tx) = 4
              /\ tx[1] = [op |-> "send",
                          data |-> CMD_CIPSEND \o Dec(r.ret) \o CRLF]
              /\ tx[3] = [op |-> "send", data |-> r.bytes]

\* a packet with a first byte that is no direction has been echoed
C11_Witness ==
    /\ pc = "main_touch"
    /\ hist.lastRecv.valid
    /\ hist.lastRecv.ret = 2
    /\ hist.lastRecv.bytes = <<SHARP_RIGHT + 1, 75>>
    /\ hist.act.dir = -1
    /\ Len(tx) = 4
    /\ tx[3].data = <<SHARP_RIGHT + 1, 75>>

(***************************************************************************)
(* Properties of the FIFO (SpecFifoTrip, SpecFifo)                         *)
(***************************************************************************)
Capacity == UART_BUFFER_SIZE - 1

InTrip == fin.kind = "trip" /\ fin.a = 2 * fin.off

\* C17: from an empty FIFO, wherever its indices stand, n <= 63 enqueues
\* all return 1, the n dequeues that follow return the enqueued bytes in
\* order, and the FIFO is empty afterwards.
C17_RoundTrip ==
    (InTrip /\ fin.n <= Capacity) =>
        /\ (fifoOp = "enq" /\ fin.e >= 1 /\ fin.d = 0) => fret = 1
        /\ (fifoOp = "deq" /\ fin.d >= 1) => fret = Data(fin.seed, fin.d - 1)
        /\ fin.d = fin.n => (Uart_FifoIsEmpty /\ dequeueIndex = enqueueIndex)
        /\ (fin.e = fin.n /\ fin.d < fin.n) => ~Uart_FifoIsEmpty

\* 63 bytes went in across the end of the buffer and came out again
C17_Witness ==
    /\ InTrip
    /\ fin.off = 40
    /\ fin.n = Capacity
    /\ fin.d = Capacity
    /\ fifoOp = "deq"
    /\ fret = Data(fin.seed, Capacity - 1)
    /\ Uart_FifoIsEmpty
    /\ enqueueIndex = 39

\* C18: the 64th consecutive enqueue into an empty FIFO returns 0 and
\* changes neither fifo[] nor the indices: the 63 bytes before it are all
\* stored, and are dequeued in order.
C18_FullRejects ==
    /\ [](InTrip /\ fin.n = UART_BUFFER_SIZE =>
            /\ (fin.e = UART_BUFFER_SIZE /\ fin.d = 0) =>
                  /\ fifoOp = "enq" /\ fret = 0
                  /\ Uart_FifoIsFull
                  /\ \A k \in 0..(Capacity - 1) :
                        fifo[(dequeueIndex + k) % UART_BUFFER_SIZE]
                            = Data(fin.seed, k)
            /\ (fifoOp = "deq" /\ fin.d \in 1..Capacity) =>
                  fret = Data(fin.seed, fin.d - 1)
            /\ fin.d = Capacity => Uart_FifoIsEmpty)
    /\ [][(InTrip /\ fin.e = Capacity /\ fin'.e = UART_BUFFER_SIZE) =>
            (fret' = 0 /\ UNCHANGED <<fifo, enqueueIndex, dequeueIndex>>)]_vars

\* after the rejected 64th enqueue the 63rd byte has been dequeued
C18_Witness ==
    /\ InTrip
    /\ fin.off = 0
    /\ fin.n = UART_BUFFER_SIZE
    /\ fin.e = UART_BUFFER_SIZE
    /\ fin.d = Capacity
    /\ fret = Data(fin.seed, Capacity - 1)
    /\ Uart_FifoIsEmpty

\* C21: after Uart_Initialize returns the FIFO is empty, whatever it held:
\* the indices are equal and Uart_IsRxDataReady returns 0.
C21_AsClaimed ==
    fifoOp = "init" =>
        /\ enqueueIndex = dequeueIndex
        /\ Uart_IsRxDataReady = 0

\* the bytes between the dequeue index and the enqueue index
Stored ==
    [i \in 1..((enqueueIndex - dequeueIndex + UART_BUFFER_SIZE)
                 % UART_BUFFER_SIZE) |->
        fifo[(dequeueIndex + i - 1) % UART_BUFFER_SIZE]]

\* C19: after any sequence of calls both indices are in 0..63, the bytes
\* accepted and not yet handed out are the (enqueueIndex - dequeueIndex)
\* mod 64 bytes from the dequeue index on, they are at most 63, the FIFO
\* reports empty exactly when there are none and full exactly when there
\* are 63; a dequeue on an empty FIFO returns 0 and moves neither index.
C19_FifoInvariant ==
    /\ [](/\ enqueueIndex \in 0..(UART_BUFFER_SIZE - 1)
          /\ dequeueIndex \in 0..(UART_BUFFER_SIZE - 1)
          /\ Stored = fq
          /\ Len(fq) <= Capacity
          /\ Uart_FifoIsEmpty <=> Len(fq) = 0
          /\ Uart_FifoIsFull <=> Len(fq) = Capacity)
    /\ [][(fifoOp' = "deq" /\ fq = <<>>) =>
            (fret' = 0 /\ UNCHANGED <<enqueueIndex, dequeueIndex>>)]_vars

\* a dequeue on the FIFO emptied after its indices wrapped
C19_Witness ==
    /\ fin.kind = "free"
    /\ fin.lap = 1
    /\ fifoOp = "deq"
    /\ fret = 0
    /\ fq = <<>>
    /\ Uart_FifoIsEmpty
    /\ dequeueIndex = 5

(***************************************************************************)
(* Properties of Uart_ReceiveISR (SpecIsr)                                 *)
(***************************************************************************)
\* C20: an invocation of Uart_ReceiveISR changes the state as one call of
\* the registered callback with the byte read does and leaves the FIFO and
\* the registration alone: with Esp8266_ProcessRxByte registered the engine
\* takes the step of that byte and no other callback runs, with another
\* callback registered that one is called once and the engine is untouched,
\* with none registered nothing changes; and the registered callback is
\* always the argument of the last Uart_SetRxCallback call.
C20_IsrCallsRegisteredOnce ==
    /\ [](sc.kind = "isr" => rxCallback = sc.reg)
    /\ [][(sc.kind = "isr" /\ nfed' = nfed + 1) =>
            /\ UNCHANGED <<fifo, enqueueIndex, dequeueIndex, fq, rxCallback>>
            /\ sc.reg = "NULL" => UNCHANGED <<engineVars, fin>>
            /\ sc.reg = "Esp8266_ProcessRxByte" =>
                  Esp8266_ProcessRxByte(Head(input)) /\ UNCHANGED fin
            /\ sc.reg = "Probe" =>
                  /\ fin'.calls = fin.calls + 1
                  /\ fin'.last = Head(input)
                  /\ UNCHANGED engineVars]_vars

\* "ready\r\n" went to the other callback, then the engine was registered
\* again and was given "OK\r\n"
C20_Witness ==
    /\ sc.kind = "isr"
    /\ rxCallback = "Esp8266_ProcessRxByte"
    /\ input = <<>>
    /\ nfed = Len(READY_MSG) + Len(OK_MSG)
    /\ fin.calls = Len(READY_MSG)
    /\ status = ESP8266_OK_MESSAGE
    /\ Uart_FifoIsEmpty

(***************************************************************************)
(* Properties of DriveCtrl_SetSpeed (SpecSpeed)                            *)
(***************************************************************************)
\* C22: after DriveCtrl_SetSpeed(s), for any byte s, both compare registers
\* hold 10 * min(s, 100), a value in 0..PWM_TIMER_MAX_COUNT.
C22_SpeedClamped ==
    sc.kind = "speed" =>
        LET m == IF sc.s < 100 THEN sc.s ELSE 100
        IN  /\ ccr = <<10 * m, 10 * m>>
            /\ ccr[1] \in 0..PWM_TIMER_MAX_COUNT
            /\ ccr[2] \in 0..PWM_TIMER_MAX_COUNT

\* the largest byte programs the timer's maximum count
C22_Witness ==
    /\ sc.kind = "speed"
    /\ sc.s = 255
    /\ ccr = <<PWM_TIMER_MAX_COUNT, PWM_TIMER_MAX_COUNT>>

(***************************************************************************)
(* Properties of one call of Esp8266_ProcessRxByte (SpecByte)              *)
(***************************************************************************)
\* the matching state the first byte of the i-th literal selects
LiteralState(i) ==
    CASE i = 1 -> ESP8266_GET_OK
      [] i = 2 -> ESP8266_GET_READY
      [] i = 3 -> ESP8266_GET_TX
      [] i = 4 -> ESP8266_GET_RX_HEADER

\* C24: a call in ESP8266_RESET leaves status, packet[] and packetSize
\* alone; with a byte that is no literal's first byte the machine stays in
\* ESP8266_RESET, with the first byte of a literal it enters that literal's
\* state with count 1, the index of the literal's second byte.
C24_IdleSelects ==
    [][(esp_state = ESP8266_RESET /\ nfed' = nfed + 1) =>
          LET byte == Head(input)
          IN  /\ UNCHANGED <<status, packet, packetSize>>
              /\ (\A i \in 1..4 : byte # Literals[i][1]) =>
                    esp_state' = ESP8266_RESET
              /\ \A i \in 1..4 :
                    byte = Literals[i][1] =>
                       /\ esp_state' = LiteralState(i)
                       /\ count' = 1
                       /\ \A j \in (1..4) \ {i} :
                             esp_state' # LiteralState(j)]_vars

\* '+' was received in ESP8266_RESET with all four flags set
C24_Witness ==
    /\ sc = NoScenario
    /\ nfed = 1
    /\ esp_state = ESP8266_GET_RX_HEADER
    /\ count = 1
    /\ status = 15
    /\ input = <<>>

(***************************************************************************)
(* Properties of the polling context under receive interrupts              *)
(***************************************************************************)
\* C26 as claimed: whenever Esp8266_ReceiveMsg has returned a nonzero length
\* L, the L bytes it copied are the body of one packet the modem sent, and
\* that packet's declared length is L.
C26_AsClaimed ==
    LET r == hist.lastRecv
    IN  (hist.phase = "loop" /\ r.valid /\ r.ret # 0) =>
            \E b \in LoopBodies : Len(b) = r.ret /\ r.bytes = b

\* the status bits outside mask that are set
Outside(word, mask) == {f \in Flags : BitAnd(mask, f) = 0 /\ BitAnd(word, f) # 0}

\* C27 as claimed: the store of "status &= ~mask", in WaitForResponse and in
\* Esp8266_ReceiveMsg, leaves set every bit outside mask that is set when
\* it executes, among them those the handler set after the load.
C27_AsClaimed ==
    [][/\ (pc = "wfr_store" /\ pc' # pc) =>
             Outside(status, msgType) \subseteq Outside(status', msgType)
       /\ (pc = "rm_store" /\ pc' # pc) =>
             Outside(status, ESP8266_RX_PACKET_MESSAGE)
                 \subseteq Outside(status', ESP8266_RX_PACKET_MESSAGE)]_vars

\* a step that transmits a command and enters the wait for its response
SendsThenWaits ==
    /\ pc # "wfr_test"
    /\ pc' = "wfr_test"
    /\ tx' # tx
    /\ tx'[Len(tx')].op = "send"

\* C28 as claimed: when the transmission of a command begins no bit of the
\* mask its wait will test is set, so that the wait can return only on
\* literals completed after that.
C28_AsClaimed ==
    [][SendsThenWaits => BitAnd(status, msgType') = 0]_vars

\* the directions for which the switch of main passes packet[1] on
Movements == {FORWARD, BACKWARD, LEFT, RIGHT}

\* C31 as claimed: when the dispatcher has handled a packet whose first byte
\* is a movement direction, the packet Esp8266_ReceiveMsg just delivered has
\* a second byte and the speed passed to DriveCtrl_SetSpeed is that byte,
\* also when the packet has length 1.
C31_AsClaimed ==
    LET r == hist.lastRecv
    IN  (Dispatched /\ hist.act.dir \in Movements) =>
            /\ r.valid
            /\ Len(r.bytes) >= 2
            /\ hist.act.speed = r.bytes[2]

\* C31 restricted to the packets that have a second byte
C31_SecondByteOfLongerPacket ==
    LET r == hist.lastRecv
    IN  (Dispatched /\ hist.act.dir \in Movements /\ r.valid /\ r.ret >= 2) =>
            hist.act.speed = r.bytes[2]

\* a packet of length 1 was dispatched with the speed byte of the packet
\* before it
C31_StaleSpeed ==
    /\ Dispatched
    /\ hist.lastRecv.bytes = <<LEFT>>
    /\ hist.act = [dir |-> LEFT, speed |-> 75]

(***************************************************************************)
(* Properties of the motor direction pins (SpecDrive)                      *)
(***************************************************************************)
BothHigh(motor) ==
    pins[MotorPins(motor)[1]] = 1 /\ pins[MotorPins(motor)[2]] = 1

\* what the call in progress leaves on the pins it was called with, by the
\* definitions that make the writes of a call at once
CallResult ==
    CASE sc.fn = "DriveCtrl_Stop" -> DriveCtrl_Stop(sc.from)
      [] sc.fn = "DriveCtrl_Forward" -> DriveCtrl_Forward(sc.from)
      [] sc.fn = "DriveCtrl_Backward" -> DriveCtrl_Backward(sc.from)
      [] sc.fn = "DriveCtrl_Turn" -> DriveCtrl_Turn(sc.dir, sc.from)
      [] OTHER -> sc.from

\* the writes of a call, made one by one, leave the pins as CallResult says
WritesAgreeWithCalls ==
    sc.done = Len(GpioWrites(sc.fn, sc.dir)) => pins = CallResult

\* C32 as claimed: in every state, those between the two GPIO writes of
\* Motor included, no motor has both of its direction pins high.
C32_AsClaimed ==
    \A motor \in {LEFT, RIGHT} : ~BothHigh(motor)

\* C32 restricted to the states in which no call of Motor is between its
\* two writes
C32_BetweenMotorCalls ==
    sc.done % 2 = 0 => \A motor \in {LEFT, RIGHT} : ~BothHigh(motor)

\* DriveCtrl_Forward called while the robot drives backward has made its
\* first write
C32_ReversalMidway ==
    /\ sc.fn = "DriveCtrl_Forward"
    /\ sc.from = DriveCtrl_Backward(PinsLow)
    /\ sc.done = 1
    /\ BothHigh(LEFT)

(***************************************************************************)
(* Properties of the main loop with a modem that answers (SpecLive)        *)
(***************************************************************************)
\* Esp8266_ReceiveMsg has just stored status with the packet flag cleared
ReceiveCleared == pc = "rm_memcpy"

\* the wait for the prompt inside the echo of a packet
InEchoPromptWait == InPromptWait /\ sbuf = "packet"

\* C33 as claimed: whenever the packet flag is set, Esp8266_ReceiveMsg later
\* clears it, and after that clear the main loop makes the drive calls for
\* the packet in its buffer; and no step taken while the main loop waits
\* for the prompt inside the echo changes the motor pins, the compare
\* registers or the drive calls made.
C33_AsClaimed ==
    /\ RxFlagSet ~> ReceiveCleared
    /\ ReceiveCleared ~> Dispatched
    /\ [][InEchoPromptWait =>
             (pins' = pins /\ ccr' = ccr /\ hist'.act = hist.act)]_vars

\* the second half of C33: nothing is acted on during the wait for the
\* prompt inside the echo
C33_NothingActedOnInWait ==
    [][InEchoPromptWait =>
          (pins' = pins /\ ccr' = ccr /\ hist'.act = hist.act)]_vars

\* C33 for the packets Esp8266_ReceiveMsg sees: once its test has found the
\* packet flag set, the drive calls for the packet in the buffer follow
C33_SeenPacketIsActedOn ==
    (pc = "rm_load") ~> Dispatched

\* a stop command has arrived completely while the main loop waits for the
\* prompt inside the echo of a forward command
C33_StopArrivedInWait ==
    /\ InEchoPromptWait
    /\ RxFlagSet
    /\ hist.act.dir = FORWARD
    /\ [i \in 1..2 |-> packet[i - 1]] = <<STOP, 0>>

=============================================================================
